---- MODULE Spec2Model ----
(***************************************************************************)
(* Model of the multi-tenant extraction run of the Ashby automation:       *)
(* extractCommand (src/src/api-extract.ts) driving the API client          *)
(* (src/unnamed/part_003: fetchCsrfToken, graphqlQuery, switchOrgContext,  *)
(* fetchPipelineForOrg, normalizePipelineData).                            *)
(*                                                                         *)
(* Every network call is split in two steps: the request is put in `req`   *)
(* (in flight) and a later step receives the remote's answer, which is     *)
(* chosen nondeterministically.  A token is represented by its age with    *)
(* respect to the session's latest switch request: Fresh if the client     *)
(* obtained it after that request was sent (or no switch was requested     *)
(* yet), Stale if it obtained it before.  Sending a switch request makes   *)
(* every token held at that moment Stale.                                  *)
(* The BrowserClient (src/src/browser-client.ts) is modelled by one call   *)
(* of its fetchPipelineForOrg.  enrichCandidatesWithDetails is modelled     *)
(* as extractCommand calls it and also called on its own, for the API      *)
(* client and for the BrowserClient (whose loop is the batch loop over     *)
(* the whole input, without tenants).                                      *)
(***************************************************************************)
EXTENDS Integers, Sequences, FiniteSets, TLC

\* ---------------------------------------------------------------- bounds
NumOrgs == 2
MaxRetriesOpt == 2
MaxPages == 2
MaxCursor == 1
MaxConcurrent == 2
MaxInput == 3
\* the batch offset is not followed further below zero than this
MaxBackward == 2

\* ------------------------------------------------------ program constants
TokenRetries == 2
DefaultMaxRetries == 1
Threshold == 7

\* ------------------------------------------------------------ value sets
NoToken == "none"
Fresh == "fresh"
Stale == "stale"
Age(t) == IF t = Fresh THEN Stale ELSE t
NoUser == 0
NoOrg == 0
NoName == 0
NullCursor == 0
DefaultCompany == 0
\* a request in flight; answer is "-" until the remote's answer has arrived
NoReq == [kind |-> "none", org |-> 0, token |-> NoToken, cursor |-> NullCursor,
          answer |-> "-"]

OrgIds == 1..NumOrgs
Cursors == 0..MaxCursor

\* a string value (its characters), or undefined / null
Undefined == [defined |-> FALSE, text |-> <<>>]
Str(cs) == [defined |-> TRUE, text |-> cs]

\* String.prototype.toLowerCase and includes
UpperCase == <<"A","B","C","D","E","F","G","H","I","J","K","L","M","N","O","P","Q","R","S","T","U","V","W","X","Y","Z">>
LowerCase == <<"a","b","c","d","e","f","g","h","i","j","k","l","m","n","o","p","q","r","s","t","u","v","w","x","y","z">>
LowerOf ==
  [c \in {UpperCase[k] : k \in 1..Len(UpperCase)} |->
     LowerCase[CHOOSE k \in 1..Len(UpperCase) : UpperCase[k] = c]]
ToLower(c) == IF c \in DOMAIN LowerOf THEN LowerOf[c] ELSE c
toLowerCase(cs) == [k \in 1..Len(cs) |-> ToLower(cs[k])]
includes(cs, part) ==
  \E k \in 0..(Len(cs) - Len(part)) : SubSeq(cs, k + 1, k + Len(part)) = part

\* applicationStatus.dueAt is absent
NoDate == 0
\* Date.now() of a run, in days (the fixture's applications are created on day 1)
Today == 8

\* stage types of the remote fixture
StageInterview == Str(<<"i", "n", "t", "e", "r", "v", "i", "e", "w">>)
StageOffer == Str(<<"o", "f", "f", "e", "r">>)
\* the stage types remote answers carry: none, the empty string, the
\* fixture's, and others with and without a keyword, in either letter case
StageTypes ==
  {Undefined, Str(<<>>), StageInterview, StageOffer,
   Str(<<"P", "h", "o", "n", "e", " ", "I", "n", "t", "e", "r", "v", "i", "e", "w">>), Str(<<"O", "N", "S", "I", "T", "E">>),
   Str(<<"T", "e", "c", "h", "n", "i", "c", "a", "l">>), Str(<<"s", "c", "r", "e", "e", "n", "i", "n", "g">>),
   Str(<<"R", "e", "c", "a", "l", "l">>), Str(<<"i", "n", "t", "a", "k", "e">>)}

\* Applications of the remote fixture (id, job, candidate.company); the
\* k-th page of a listing holds PageContent(k).
App(a) == [id |-> a, jobId |-> (a % 2) + 1, company |-> a % 2,
           stageType |-> IF a % 2 = 1 THEN StageInterview ELSE StageOffer,
           createdAt |-> 1,
           dueAt |-> NoDate]
PageContent(k) == <<App(k)>>
\* jobsPipelines answers (job ids).
JobsResponses == {<<1>>}

\* Outcomes of a request other than a usable answer.
TokenFailures == {"http401", "httperr", "reject"}
QueryFailures == {"http401", "httperr", "reject", "badjson", "gqlerrors"}
SwitchFailures == {"http401", "httperr", "reject"}

GqlSites == {"verify", "jobs", "apps", "name"}

VARIABLES
  pc, step,                 \* position of the run: call site and step in it
  client,                   \* "api": extractCommand with the API client;
                            \* "browser": one BrowserClient.fetchPipelineForOrg;
                            \* "enrich", "b_enrich": one call of
                            \* enrichCandidatesWithDetails of either client;
                            \* "start": extractCommand from its first line
  session,                  \* what loadSession finds
  identities,               \* the remote's list of available identities
  orgFilter, maxOrgs,       \* options.orgFilter, options.maxOrgs
  now,                      \* Date.now() of the run, in days
  orgInfos,                 \* the tenants discovered
  orgsToProcess, retriesOpt,\* inputs of the run
  detailed, maxConcurrent,  \* options.detailed, options.detailedConcurrent || 5
  fetchAll,                 \* options.fetchAll of enrichCandidatesWithDetails
  mode,                     \* "extract" or "enrich": the caller of switchOrgContext
  groups, g, off, batch,    \* enrichCandidatesWithDetails: candidatesByOrg, its
  enrichedCandidates,       \*   iteration, the batch offset and the batch's tasks
  currentOrgContext,
  i, attempt, success,      \* extractCommand loop variables
  allCompanies, allJobs, allCandidates, failedOrgs,
  exported, exitCode,
  csrfToken,                \* session.csrfToken
  localToken, tokAttempt,   \* locals of switchOrgContext/graphqlQuery, fetchCsrfToken
  req,                      \* the request in flight
  switchedOrg, jobsData, allApplications, cursor, hasMore, orgName,
  \* history variables
  lastSwitch, verified, pages, sentCursors,
  returned, switchFailed, baseFailed, seen401,
  runs,                     \* the results of the calls of the normalisers made on their own
  script,                   \* the state of run_ashby_extract.sh
  lastThrow,                \* the outcome that made the current tenant's last attempt throw
  switchCalls               \* per tenant, the calls of switchOrgContext made by enrichment

loopVars == <<i, attempt, success>>
aggVars == <<allCompanies, allJobs, allCandidates, failedOrgs>>
outVars == <<exported, exitCode>>
inputVars == <<client, retriesOpt, detailed, maxConcurrent, fetchAll, session,
              identities, orgFilter, maxOrgs, now>>
cfgVars == <<inputVars, orgsToProcess, orgInfos>>
enrVars == <<mode, groups, g, off, batch, enrichedCandidates, currentOrgContext>>
fetchVars == <<switchedOrg, jobsData, allApplications, cursor, hasMore, orgName>>
histVars == <<lastSwitch, verified, pages, sentCursors,
              returned, switchFailed, baseFailed, seen401, lastThrow, switchCalls, runs, script>>
vars == <<pc, step, client, session, identities, orgFilter, maxOrgs, now, orgInfos,
          orgsToProcess, retriesOpt, detailed, maxConcurrent, fetchAll,
          mode, groups, g, off, batch, enrichedCandidates, currentOrgContext,
          i, attempt, success,
          allCompanies, allJobs, allCandidates, failedOrgs, exported, exitCode,
          csrfToken, localToken, tokAttempt, req,
          switchedOrg, jobsData, allApplications, cursor, hasMore, orgName,
          lastSwitch, verified, pages, sentCursors,
          returned, switchFailed, baseFailed, seen401, lastThrow, switchCalls, runs, script>>

\* ------------------------------------------------------------- helpers
RECURSIVE Flatten(_)
Flatten(ss) == IF ss = <<>> THEN <<>> ELSE Head(ss) \o Flatten(Tail(ss))

InSeq(x, s) == \E k \in 1..Len(s) : s[k] = x

\* const maxRetries = options.retries || 1
maxRetries == IF retriesOpt = 0 THEN DefaultMaxRetries ELSE retriesOpt

CurOrg == orgsToProcess[i]
CurOrgId == IF mode = "enrich" THEN groups[g].orgId ELSE CurOrg.id

EmptyResult == [companies |-> <<>>, jobs |-> <<>>, candidates |-> <<>>]

\* --------------------------------------------- normalizePipelineData
RECURSIVE JobsFromPipelines(_, _)
JobsFromPipelines(jp, acc) ==
  IF jp = <<>> THEN acc
  ELSE JobsFromPipelines(Tail(jp),
         IF \E k \in 1..Len(acc) : acc[k].id = Head(jp) THEN acc
         ELSE Append(acc, [id |-> Head(jp), companyId |-> DefaultCompany]))

RECURSIVE JobsFromApps(_, _)
JobsFromApps(apps, acc) ==
  IF apps = <<>> THEN acc
  ELSE JobsFromApps(Tail(apps),
         IF \E k \in 1..Len(acc) : acc[k].id = Head(apps).jobId THEN acc
         ELSE Append(acc, [id |-> Head(apps).jobId, companyId |-> Head(apps).company]))

RECURSIVE CompaniesFromApps(_, _)
CompaniesFromApps(apps, acc) ==
  IF apps = <<>> THEN acc
  ELSE CompaniesFromApps(Tail(apps),
         IF InSeq(Head(apps).company, acc) THEN acc
         ELSE Append(acc, Head(apps).company))

\* Math.max(0, Math.floor((Date.now() - last) / day)), in days
computeDaysInStage(lastActivityAt, today) ==
  IF today - lastActivityAt > 0 THEN today - lastActivityAt ELSE 0

\* if (!stageType) return false;
\* isInterviewStage = interviewKeywords.some(k => stageType.toLowerCase().includes(k));
\* return isInterviewStage && daysInStage >= threshold
interviewKeywords ==
  {<<"i", "n", "t", "e", "r", "v", "i", "e", "w">>,
   <<"o", "n", "s", "i", "t", "e">>,
   <<"t", "e", "c", "h", "n", "i", "c", "a", "l">>,
   <<"s", "c", "r", "e", "e", "n", "i", "n", "g">>,
   <<"c", "a", "l", "l">>}
\* isInterviewStage of each stage type, computed once
isInterviewStage ==
  [stageType \in StageTypes |->
     \E keyword \in interviewKeywords :
       includes(toLowerCase(stageType.text), keyword)]

\* (variant used to test C28) the threshold day itself does not count
computeNeedsSchedulingAfterThreshold(stageType, daysInStage) ==
  IF ~stageType.defined \/ stageType.text = <<>> THEN FALSE
  ELSE isInterviewStage[stageType] /\ daysInStage > Threshold

computeNeedsScheduling(stageType, daysInStage) ==
  IF ~stageType.defined \/ stageType.text = <<>> THEN FALSE
  ELSE isInterviewStage[stageType] /\ daysInStage >= Threshold

\* jobTitle / app.job.title: the title a tenant's remote data gives a job
JobTitle(orgId, jobId) == <<orgId, jobId>>
Titled(jobs, orgId) ==
  [k \in 1..Len(jobs) |->
     [id |-> jobs[k].id, title |-> JobTitle(orgId, jobs[k].id),
      companyId |-> jobs[k].companyId]]

\* app.currentInterviewStage?.stageType || null
StageTypeOrNull(app) ==
  IF app.stageType.defined /\ app.stageType.text # <<>> THEN app.stageType
  ELSE Undefined

\* (variant used to test C38) without the "Ensure job exists" block of the
\* applications loop: the jobs are those of jobsPipelines only
normalizePipelineDataListedJobsOnly(jobsPipelines, applications, orgId, name) ==
  [companies |-> CompaniesFromApps(applications,
                   IF jobsPipelines = <<>> THEN <<>> ELSE <<DefaultCompany>>),
   jobs |-> Titled(JobsFromPipelines(jobsPipelines, <<>>), orgId),
   candidates |-> [k \in 1..Len(applications) |->
                     [id |-> applications[k].id,
                      jobId |-> applications[k].jobId,
                      companyId |-> applications[k].company,
                      orgId |-> orgId,
                      orgName |-> name,
                      stageType |-> StageTypeOrNull(applications[k]),
                      daysInStage |-> computeDaysInStage(applications[k].createdAt, now),
                      needsScheduling |->
                        computeNeedsScheduling(StageTypeOrNull(applications[k]),
                          computeDaysInStage(applications[k].createdAt, now)),
                      enriched |-> FALSE]]]

normalizePipelineData(jobsPipelines, applications, orgId, name) ==
  [companies |-> CompaniesFromApps(applications,
                   IF jobsPipelines = <<>> THEN <<>> ELSE <<DefaultCompany>>),
   jobs |-> Titled(JobsFromApps(applications, JobsFromPipelines(jobsPipelines, <<>>)),
                   orgId),
   candidates |-> [k \in 1..Len(applications) |->
                     [id |-> applications[k].id,
                      jobId |-> applications[k].jobId,
                      companyId |-> applications[k].company,
                      orgId |-> orgId,
                      orgName |-> name,
                      stageType |-> StageTypeOrNull(applications[k]),
                      daysInStage |-> computeDaysInStage(applications[k].createdAt, now),
                      needsScheduling |->
                        computeNeedsScheduling(StageTypeOrNull(applications[k]),
                          computeDaysInStage(applications[k].createdAt, now)),
                      enriched |-> FALSE]]]

\* candidatesByOrg without the has() test: every record makes a group
GroupByOrgPerRecord(cands, acc) ==
  acc \o [k \in 1..Len(cands) |-> [orgId |-> cands[k].orgId, cands |-> <<cands[k]>>]]

\* candidatesByOrg: a Map from orgId to its candidates, in insertion order
RECURSIVE GroupByOrg(_, _)
GroupByOrg(cands, acc) ==
  IF cands = <<>> THEN acc
  ELSE LET c == Head(cands) IN
       GroupByOrg(Tail(cands),
         IF \E k \in 1..Len(acc) : acc[k].orgId = c.orgId
         THEN [k \in 1..Len(acc) |->
                 IF acc[k].orgId = c.orgId
                 THEN [acc[k] EXCEPT !.cands = Append(@, c)] ELSE acc[k]]
         ELSE Append(acc, [orgId |-> c.orgId, cands |-> <<c>>]))

\* the candidates argument of a call of enrichCandidatesWithDetails: records
\* as normalizePipelineData makes them, of any tenants in any order
EnrichInputs ==
  {[k \in 1..MaxInput |->
      normalizePipelineData(<<>>, <<App(k)>>, f[k], f[k]).candidates[1]] :
     f \in [1..MaxInput -> OrgIds]}

\* inputs of a call of normalizePipelineData on its own: one application of
\* a listed job, with any of the stage types and these dates
CreatedAts == {1, 2, 10}
DueAts == {NoDate, 2}
SampleApps ==
  {<<[id |-> 1, jobId |-> 1, company |-> 1, stageType |-> st,
      createdAt |-> c, dueAt |-> d]>> :
     st \in StageTypes, c \in CreatedAts, d \in DueAts}

\* ------------------------------------------------- run_ashby_extract.sh
\* MAX_RETRIES=2
MAX_RETRIES == 2
\* .ashby-session.json as check_session sees it: missing, older than seven
\* days, or recent
SessionFiles == {"missing", "old", "recent"}
\* what the user gives the refresh_cookies dialog: Cancel, Continue with an
\* empty field, Continue with a token
DialogAnswers == {"cancel", "empty", "token"}
\* a run of `npm run start -- extract --detailed`: its exit status, whether
\* its log has one of the lines "401 Unauthorized", "Session appears
\* expired", "Failed to fetch CSRF token", and whether the last 20 lines of
\* the log have the line "Total candidates extracted:"
ExtractionRuns == [exit : {0, 1}, expired : BOOLEAN, counted : BOOLEAN]
NoLog == [exit |-> 0, expired |-> FALSE, counted |-> FALSE]
\* the script before check_session
ScriptStart(file) ==
  [pc |-> "check", file |-> file, RETRY_COUNT |-> 0, EXTRACTION_SUCCESS |-> FALSE,
   log |-> NoLog, extractions |-> <<>>, refreshes |-> <<>>, report |-> "none",
   status |-> 0]
\* the script is not used
NotRun == [ScriptStart("recent") EXCEPT !.pc = "off"]

\* ---------------------------------------------------------------- Init
\* the names of the remote fixture's tenants
OrgNameOf(k) == IF k = 1 THEN Str(<<"A", "c">>) ELSE Str(<<"b", "c">>)
NoFilter == Undefined
\* --org values: one matching a single tenant by case folding, one matching
\* every tenant, one matching none
OrgFilters == {NoFilter, Str(<<"a">>), Str(<<"C">>), Str(<<"x">>)}
\* --max-orgs values (0: the option is not given)
MaxOrgsValues == {0, 1}

\* answers of /api/auth/available_identities: no identity, one identity for
\* each tenant, the same with the first organization's name missing, and
\* three identities of two tenants, the last tenant listed first and once
\* more at the end under another user
Identity(k, name) == [org |-> k, name |-> name, user |-> k]
SharedTenantIdentities ==
  <<Identity(NumOrgs, OrgNameOf(NumOrgs)), Identity(1, OrgNameOf(1)),
    [org |-> NumOrgs, name |-> OrgNameOf(NumOrgs), user |-> 1]>>
IdentityFixtures ==
  {<<>>,
   [k \in 1..NumOrgs |-> Identity(k, OrgNameOf(k))],
   [k \in 1..NumOrgs |-> Identity(k, IF k = 1 THEN Undefined ELSE OrgNameOf(k))],
   SharedTenantIdentities}

OrgLists ==
  {s \in [1..NumOrgs -> [id : OrgIds, name : {OrgNameOf(k) : k \in OrgIds},
                         userId : {NoUser} \cup OrgIds]] :
     \A k \in 1..NumOrgs : /\ s[k].id = k /\ s[k].name = OrgNameOf(k)
                            /\ s[k].userId \in {NoUser, k}}

\* extractCommand starts after discovery stored a token in the session; a
\* BrowserClient is called for one tenant, with or without a cached token
\* a call of enrichCandidatesWithDetails on its own starts with the session
\* of an earlier discovery or extraction; the BrowserClient's has no tenants
\* and runs the batch loop over the whole input
InitWith(concurrency) ==
  /\ client \in {"api", "browser", "enrich", "b_enrich", "start", "normalize"}
  /\ now = Today
  /\ \/ /\ client = "start"
        /\ pc = "load"
        /\ session \in {"none", "nocookies", "noauth", "ok"}
        /\ identities \in IdentityFixtures
        /\ orgFilter \in OrgFilters /\ maxOrgs \in MaxOrgsValues
        /\ orgsToProcess = <<>> /\ orgInfos = <<>>
        /\ retriesOpt = 0 /\ detailed = FALSE /\ maxConcurrent = 1
        /\ fetchAll = TRUE
        /\ i = 1
        /\ csrfToken = NoToken
        /\ mode = "extract" /\ groups = <<>> /\ allCandidates = <<>>
     \/ /\ client # "start"
        /\ session = "ok" /\ identities = <<>>
        /\ orgFilter = NoFilter /\ maxOrgs = 0
        /\ orgsToProcess \in OrgLists /\ orgInfos = orgsToProcess
  /\ \/ client = "start"
     \/ /\ client = "api"
        /\ pc = "loop_head"
        /\ retriesOpt \in {0, MaxRetriesOpt}
        /\ detailed \in BOOLEAN
        /\ maxConcurrent \in 1..MaxConcurrent
        /\ fetchAll = TRUE
        /\ i = 1
        /\ csrfToken = Fresh
        /\ mode = "extract" /\ groups = <<>> /\ allCandidates = <<>>
     \/ /\ client = "browser"
        /\ pc = "b_start"
        /\ retriesOpt = 0 /\ detailed = FALSE /\ maxConcurrent = 1
        /\ fetchAll = TRUE
        /\ i \in 1..NumOrgs
        /\ csrfToken \in {NoToken, Fresh}
        /\ mode = "extract" /\ groups = <<>> /\ allCandidates = <<>>
     \/ /\ client = "enrich"
        /\ pc = "enrich_head"
        /\ retriesOpt = 0 /\ detailed = TRUE
        /\ maxConcurrent \in concurrency
        /\ fetchAll \in BOOLEAN
        /\ i = 1
        /\ csrfToken = Fresh
        /\ mode = "enrich"
        /\ allCandidates \in EnrichInputs
        /\ groups = GroupByOrg(allCandidates, <<>>)
     \/ /\ client = "b_enrich"
        /\ pc = "batch_head"
        /\ \A k \in 1..NumOrgs : orgsToProcess[k].userId = k
        /\ retriesOpt = 0 /\ detailed = TRUE
        /\ maxConcurrent \in 1..MaxConcurrent
        /\ fetchAll \in BOOLEAN
        /\ i = 1
        /\ csrfToken = Fresh
        /\ mode = "enrich"
        /\ allCandidates \in EnrichInputs
        /\ groups = <<[orgId |-> NoOrg, cands |-> allCandidates]>>
     \/ /\ client = "normalize"
        /\ pc = "n_api"
        /\ \A k \in 1..NumOrgs : orgsToProcess[k].userId = k
        /\ retriesOpt = 0 /\ detailed = FALSE /\ maxConcurrent = 1
        /\ fetchAll = TRUE
        /\ i = 1
        /\ csrfToken = Fresh
        /\ mode = "extract" /\ groups = <<>> /\ allCandidates = <<>>
  /\ step = "-"
  /\ g = 1 /\ off = 0 /\ batch = <<>>
  /\ enrichedCandidates = <<>> /\ currentOrgContext = NoOrg
  /\ attempt = 1 /\ success = FALSE
  /\ allCompanies = <<>> /\ allJobs = <<>>
  /\ failedOrgs = <<>>
  /\ exported = <<>> /\ exitCode = 0
  /\ localToken = NoToken /\ tokAttempt = 0
  /\ req = NoReq
  /\ switchedOrg = FALSE
  /\ IF client = "normalize"
     THEN allApplications \in SampleApps /\ jobsData = <<1>>
     ELSE jobsData = <<>> /\ allApplications = <<>>
  /\ cursor = NullCursor /\ hasMore = TRUE /\ orgName = NoName
  /\ lastSwitch = [target |-> 0, status |-> "none"]
  /\ verified = "none"
  /\ pages = <<>> /\ sentCursors = <<>>
  /\ returned = [k \in OrgIds |-> <<>>]
  /\ switchFailed = {} /\ baseFailed = {} /\ seen401 = "no" /\ lastThrow = "none"
  /\ switchCalls = [k \in OrgIds |-> 0]
  /\ runs = [api |-> <<>>, browser |-> <<>>]

\* the calls of enrichCandidatesWithDetails on its own are made with the
\* numbers of concurrent fetches 1..MaxConcurrent
Init == InitWith(1..MaxConcurrent) /\ script = NotRun

\* ------------------------------------ extractCommand: before the loop
\* orgMap of fetchAllAvailableOrgs: one descriptor for each organization id,
\* with the user id of its first identity, in order of first appearance
\* (variant used to test C36) orgMap.set without the has() test: a later
\* identity of a tenant replaces the descriptor, at the place of the first
RECURSIVE OrgMapOfKeepsLast(_, _)
OrgMapOfKeepsLast(ids, acc) ==
  IF ids = <<>> THEN acc
  ELSE LET d == [id |-> Head(ids).org, name |-> Head(ids).name,
                 userId |-> Head(ids).user]
       IN OrgMapOfKeepsLast(Tail(ids),
            IF \E k \in 1..Len(acc) : acc[k].id = d.id
            THEN [k \in 1..Len(acc) |-> IF acc[k].id = d.id THEN d ELSE acc[k]]
            ELSE Append(acc, d))

RECURSIVE OrgMapOf(_, _)
OrgMapOf(ids, acc) ==
  IF ids = <<>> THEN acc
  ELSE OrgMapOf(Tail(ids),
         IF \E k \in 1..Len(acc) : acc[k].id = Head(ids).org THEN acc
         ELSE Append(acc, [id |-> Head(ids).org, name |-> Head(ids).name,
                           userId |-> Head(ids).user]))

\* orgsToProcess.filter(org => org.name.toLowerCase().includes(filterLower)):
\* evaluating it on a descriptor without name is a TypeError
FilterThrows(orgs) == \E k \in 1..Len(orgs) : ~orgs[k].name.defined
\* the filter without toLowerCase: a case-sensitive test
FilterByNameCaseSensitive(orgs, f) ==
  SelectSeq(orgs, LAMBDA org : includes(org.name.text, f.text))
FilterByName(orgs, f) ==
  SelectSeq(orgs, LAMBDA org : includes(toLowerCase(org.name.text), toLowerCase(f.text)))
\* orgsToProcess.slice(0, options.maxOrgs)
SliceTo(orgs, n) == SubSeq(orgs, 1, IF n < Len(orgs) THEN n ELSE Len(orgs))

\* ------------------------------------------------ extractCommand: tenant loop
\* for (let i = 0; i < orgsToProcess.length; i++) -- loop finished
LoopExit ==
  /\ pc = "loop_head" /\ i > Len(orgsToProcess)
  /\ pc' = "summary"
  /\ UNCHANGED <<step, cfgVars, loopVars, aggVars, outVars, enrVars, csrfToken, localToken,
                 tokAttempt, req, fetchVars, histVars>>

\* (variant used to test C34) the tenant is skipped without being recorded
SkipNoUserIdUnrecorded ==
  /\ pc = "loop_head" /\ i <= Len(orgsToProcess)
  /\ CurOrg.userId = NoUser
  /\ i' = i + 1
  /\ seen401' = IF seen401 = "no" THEN "no" ELSE "earlier"
  /\ UNCHANGED <<lastThrow, switchCalls, runs, script>>
  /\ UNCHANGED <<pc, step, cfgVars, attempt, success, aggVars, outVars, enrVars,
                 csrfToken, localToken, tokAttempt, req,
                 fetchVars, lastSwitch, verified, pages, sentCursors, returned,
                 switchFailed, baseFailed>>

\* if (!orgInfo.userId) { failedOrgs.push(...); continue; }
SkipNoUserId ==
  /\ pc = "loop_head" /\ i <= Len(orgsToProcess)
  /\ CurOrg.userId = NoUser
  /\ failedOrgs' = Append(failedOrgs, [org |-> CurOrgId, reason |-> "no userId"])
  /\ i' = i + 1
  /\ seen401' = IF seen401 = "no" THEN "no" ELSE "earlier"
  /\ UNCHANGED <<lastThrow, switchCalls, runs, script>>
  /\ UNCHANGED <<pc, step, cfgVars, attempt, success, allCompanies, allJobs,
                 allCandidates, outVars, enrVars, csrfToken, localToken, tokAttempt, req,
                 fetchVars, lastSwitch, verified, pages, sentCursors, returned,
                 switchFailed, baseFailed>>

\* let success = false; for (let attempt = 1; ...
StartOrg ==
  /\ pc = "loop_head" /\ i <= Len(orgsToProcess)
  /\ CurOrg.userId # NoUser
  /\ success' = FALSE /\ attempt' = 1
  /\ pc' = "attempt_head"
  /\ UNCHANGED <<step, cfgVars, i, aggVars, outVars, enrVars, csrfToken, localToken,
                 tokAttempt, req, fetchVars, histVars>>

\* (variant used to test C33) the attempt loop does not test success
StartAttemptAfterSuccess ==
  /\ pc = "attempt_head"
  /\ attempt <= maxRetries
  /\ pc' = "switch" /\ step' = "pre_tok"
  /\ tokAttempt' = 0
  /\ verified' = "none"
  /\ UNCHANGED <<cfgVars, loopVars, aggVars, outVars, enrVars, csrfToken, localToken, req,
                 fetchVars, lastSwitch, pages, sentCursors,
                 returned, switchFailed, baseFailed, seen401, lastThrow, switchCalls, runs, script>>

\* attempt <= maxRetries && !success: call fetchPipelineForOrg, which calls
\* switchOrgContext (userId && orgId !== 'default'), which calls fetchCsrfToken
StartAttempt ==
  /\ pc = "attempt_head"
  /\ attempt <= maxRetries /\ ~success
  /\ pc' = "switch" /\ step' = "pre_tok"
  /\ tokAttempt' = 0
  /\ verified' = "none"
  /\ UNCHANGED <<cfgVars, loopVars, aggVars, outVars, enrVars, csrfToken, localToken, req,
                 fetchVars, lastSwitch, pages, sentCursors,
                 returned, switchFailed, baseFailed, seen401, lastThrow, switchCalls, runs, script>>

\* the attempt loop ends; next tenant
NextOrg ==
  /\ pc = "attempt_head"
  /\ ~(attempt <= maxRetries /\ ~success)
  /\ i' = i + 1
  /\ pc' = "loop_head"
  /\ seen401' = IF seen401 = "no" THEN "no" ELSE "earlier"
  /\ lastThrow' = "none" /\ UNCHANGED <<switchCalls, runs, script>>
  /\ UNCHANGED <<step, cfgVars, attempt, success, aggVars, outVars, enrVars, csrfToken,
                 localToken, tokAttempt, req, fetchVars, lastSwitch, verified,
                 pages, sentCursors, returned, switchFailed, baseFailed>>

\* ----------------------------------------- returns of fetchPipelineForOrg
ResetFetchLocals ==
  /\ switchedOrg' = FALSE /\ jobsData' = <<>> /\ allApplications' = <<>>
  /\ cursor' = NullCursor /\ hasMore' = TRUE /\ orgName' = NoName
  /\ pages' = <<>> /\ sentCursors' = <<>>
  /\ localToken' = NoToken /\ tokAttempt' = 0
  /\ verified' = "none"

\* fetchPipelineForOrg returned `result`: api-extract.ts 118-123
PipelineReturns(result) ==
  /\ allCompanies' = allCompanies \o result.companies
  /\ allJobs' = allJobs \o result.jobs
  /\ allCandidates' = allCandidates \o result.candidates
  /\ success' = TRUE
  /\ attempt' = attempt + 1
  /\ returned' = [returned EXCEPT ![CurOrgId] = <<result>>]
  /\ pc' = "attempt_head" /\ step' = "-"
  /\ ResetFetchLocals
  /\ UNCHANGED <<cfgVars, i, failedOrgs, outVars, enrVars>>

\* (variant used to test C5) the catch block drops what was aggregated so far
PipelineThrowsDiscards ==
  /\ failedOrgs' = IF attempt = maxRetries
                   THEN Append(failedOrgs, [org |-> CurOrgId, reason |-> "failed"])
                   ELSE failedOrgs
  /\ allCompanies' = <<>> /\ allJobs' = <<>> /\ allCandidates' = <<>>
  /\ attempt' = attempt + 1
  /\ pc' = "attempt_head" /\ step' = "-"
  /\ ResetFetchLocals
  /\ UNCHANGED <<cfgVars, i, success, returned, outVars, enrVars>>

\* fetchPipelineForOrg threw: the catch block, api-extract.ts 125-135
PipelineThrows ==
  /\ failedOrgs' = IF attempt = maxRetries
                   THEN Append(failedOrgs, [org |-> CurOrgId, reason |-> "failed"])
                   ELSE failedOrgs
  /\ attempt' = attempt + 1
  /\ pc' = "attempt_head" /\ step' = "-"
  /\ ResetFetchLocals
  /\ UNCHANGED <<cfgVars, i, success, allCompanies, allJobs, allCandidates,
                 returned, outVars, enrVars>>

\* switchOrgContext threw inside enrichCandidatesWithDetails: the group's
\* candidates are kept unchanged and the next group is taken (part_003 995-999)
EnrichSwitchFailed ==
  /\ enrichedCandidates' = enrichedCandidates \o groups[g].cands
  /\ g' = g + 1
  /\ pc' = "enrich_head" /\ step' = "-"
  /\ localToken' = NoToken /\ tokAttempt' = 0
  /\ verified' = "none"
  /\ UNCHANGED <<cfgVars, loopVars, aggVars, outVars, fetchVars, pages,
                 sentCursors, returned, mode, groups, off, batch,
                 currentOrgContext>>

\* switchOrgContext returned inside enrichCandidatesWithDetails:
\* currentOrgContext = orgId, then the batch loop (part_003 994, 1003)
EnrichSwitched ==
  /\ currentOrgContext' = groups[g].orgId
  /\ off' = 0
  /\ pc' = "batch_head" /\ step' = "-"
  /\ localToken' = NoToken
  /\ UNCHANGED <<cfgVars, loopVars, aggVars, outVars, fetchVars, tokAttempt,
                 pages, sentCursors, returned, mode, groups, g, batch,
                 enrichedCandidates>>

\* switchOrgContext returned: switchedOrg = true, go on to the job listing
SwitchReturns ==
  IF mode = "enrich" THEN EnrichSwitched
  ELSE /\ switchedOrg' = TRUE
       /\ pc' = "jobs" /\ step' = "enter"
       /\ UNCHANGED <<cfgVars, loopVars, aggVars, outVars, enrVars, localToken,
                      tokAttempt, jobsData, allApplications, cursor, hasMore,
                      orgName, pages, sentCursors, returned>>

\* (variant used to test C2) the failure of switchOrgContext is ignored and
\* the caller goes on as after a successful switch
SwitchThrowsIgnored == SwitchReturns /\ UNCHANGED verified

\* switchOrgContext threw: fetchPipelineForOrg catches it and returns an
\* empty result (part_003 417-425)
SwitchThrows ==
  IF mode = "enrich" THEN EnrichSwitchFailed ELSE PipelineReturns(EmptyResult)

\* history: the tenants whose switch failed during the extraction loop
NoteSwitchFailed ==
  switchFailed' = IF mode = "extract" THEN switchFailed \cup {CurOrgId}
                  ELSE switchFailed

\* history: an authorization failure was answered while this tenant ("this")
\* or an earlier tenant ("earlier") was being processed
Note401(o) == seen401' = IF o = "http401" /\ seen401 = "no" THEN "this" ELSE seen401

\* ------------------------------------------------------ fetchCsrfToken
InTokenFetch ==
  \/ pc = "discover" /\ step = "tok"
  \/ pc = "switch" /\ step \in {"pre_tok", "post_tok"}
  \/ pc \in GqlSites /\ step = "tok"

\* (variant used to test C11) a 401 is retried like any other non-OK answer
TokenGivesUpRetries401(o) ==
  \/ o = "reject"
  \/ o \in {"httperr", "http401"} /\ tokAttempt >= TokenRetries

\* the answer o ends fetchCsrfToken with an exception: a 401 (lines 142-150),
\* a rejected fetch (nothing catches it), or a non-OK answer on the last
\* attempt (lines 158-159)
TokenGivesUp(o) ==
  \/ o = "http401"
  \/ o = "reject"
  \/ o = "httperr" /\ tokAttempt >= TokenRetries

\* the remote's answer to the token request arrives
TokenAnswer(o) ==
  /\ req.kind = "token" /\ req.answer = "-"
  /\ o \in {"ok"} \cup TokenFailures
  /\ req' = [req EXCEPT !.answer = o]
  /\ UNCHANGED <<pc, step, cfgVars, loopVars, aggVars, outVars, enrVars, csrfToken,
                 localToken, tokAttempt, fetchVars, histVars>>

\* const res = await fetch(url, { method: 'GET', headers })
SendTokenRequest ==
  /\ InTokenFetch /\ req = NoReq
  /\ req' = [kind |-> "token", org |-> IF pc = "discover" THEN NoOrg ELSE CurOrgId,
             token |-> csrfToken,
             cursor |-> NullCursor,
             answer |-> "-"]
  /\ UNCHANGED <<pc, step, cfgVars, loopVars, aggVars, outVars, enrVars, csrfToken,
                 localToken, tokAttempt, fetchVars, histVars>>

\* non-OK answer other than 401 with attempts left: back off and retry
TokenRetry ==
  /\ InTokenFetch /\ req.kind = "token"
  /\ req.answer \in TokenFailures /\ ~TokenGivesUp(req.answer)
  /\ tokAttempt' = tokAttempt + 1
  /\ req' = NoReq
  /\ UNCHANGED <<pc, step, cfgVars, loopVars, aggVars, outVars, enrVars, csrfToken,
                 localToken, fetchVars, histVars>>

\* ----------------------------------------------------- switchOrgContext
\* const csrfToken = await fetchCsrfToken(session)  (line 275)
SwitchPreTokenOk ==
  /\ pc = "switch" /\ step = "pre_tok" /\ req.kind = "token" /\ req.answer = "ok"
  /\ localToken' = Fresh
  /\ step' = "request"
  /\ req' = NoReq
  /\ UNCHANGED <<pc, cfgVars, loopVars, aggVars, outVars, enrVars, csrfToken, tokAttempt,
                 fetchVars, histVars>>

SwitchPreTokenFail(o) ==
  /\ pc = "switch" /\ step = "pre_tok" /\ req.kind = "token"
  /\ req.answer = o /\ TokenGivesUp(o)
  /\ req' = NoReq
  /\ Note401(o) /\ UNCHANGED <<lastThrow, switchCalls, runs, script>>
  /\ SwitchThrows
  /\ UNCHANGED <<csrfToken, lastSwitch, switchFailed, baseFailed>>

\* POST /api/auth/change_user/${userId}
SendSwitchRequest ==
  /\ pc = "switch" /\ step = "request" /\ req = NoReq
  /\ req' = [kind |-> "switch", org |-> CurOrgId, token |-> localToken,
             cursor |-> NullCursor,
             answer |-> "-"]
  /\ csrfToken' = Age(csrfToken)
  /\ localToken' = Age(localToken)
  /\ lastSwitch' = [target |-> CurOrgId, status |-> "pending"]
  /\ UNCHANGED <<pc, step, cfgVars, loopVars, aggVars, outVars, enrVars, tokAttempt,
                 fetchVars, verified, pages, sentCursors, returned, switchFailed,
                 baseFailed, seen401, lastThrow, switchCalls, runs, script>>

\* res.ok: go on to the token refresh of lines 307-318
SwitchRequestOk ==
  /\ pc = "switch" /\ step = "request" /\ req.kind = "switch"
  /\ lastSwitch' = [lastSwitch EXCEPT !.status = "ok"]
  /\ step' = "post_tok"
  /\ tokAttempt' = 0
  /\ req' = NoReq
  /\ UNCHANGED <<pc, cfgVars, loopVars, aggVars, outVars, enrVars, csrfToken, localToken,
                 fetchVars, verified, pages, sentCursors, returned,
                 switchFailed, baseFailed, seen401, lastThrow, switchCalls, runs, script>>

\* !res.ok (or the request was rejected): throw
SwitchRequestFail(o) ==
  /\ pc = "switch" /\ step = "request" /\ req.kind = "switch"
  /\ o \in SwitchFailures
  /\ lastSwitch' = [lastSwitch EXCEPT !.status = "failed"]
  /\ NoteSwitchFailed
  /\ req' = NoReq
  /\ Note401(o) /\ UNCHANGED <<lastThrow, switchCalls, runs, script>>
  /\ SwitchThrows
  /\ UNCHANGED <<csrfToken, baseFailed>>

\* (variant used to test C3) the token fetched after the switch is not stored
SwitchPostTokenOkKeepsToken ==
  /\ pc = "switch" /\ step = "post_tok" /\ req.kind = "token" /\ req.answer = "ok"
  /\ pc' = "verify" /\ step' = "enter"
  /\ req' = NoReq
  /\ UNCHANGED <<cfgVars, loopVars, aggVars, outVars, enrVars, csrfToken,
                 localToken, tokAttempt, fetchVars, histVars>>

\* session.csrfToken = newCsrfToken  (line 311)
SwitchPostTokenOk ==
  /\ pc = "switch" /\ step = "post_tok" /\ req.kind = "token" /\ req.answer = "ok"
  /\ csrfToken' = Fresh
  /\ pc' = "verify" /\ step' = "enter"
  /\ req' = NoReq
  /\ UNCHANGED <<cfgVars, loopVars, aggVars, outVars, enrVars, localToken, tokAttempt,
                 fetchVars, histVars>>

\* (variant used to test C31) the catch block does not clear the token
SwitchPostTokenFailKeepsToken(o) ==
  /\ pc = "switch" /\ step = "post_tok" /\ req.kind = "token"
  /\ req.answer = o /\ TokenGivesUp(o)
  /\ NoteSwitchFailed
  /\ req' = NoReq
  /\ Note401(o) /\ UNCHANGED <<lastThrow, switchCalls, runs, script>>
  /\ SwitchThrows
  /\ UNCHANGED <<csrfToken, lastSwitch, baseFailed>>

\* catch: session.csrfToken = undefined; throw  (lines 313-318)
SwitchPostTokenFail(o) ==
  /\ pc = "switch" /\ step = "post_tok" /\ req.kind = "token"
  /\ req.answer = o /\ TokenGivesUp(o)
  /\ csrfToken' = NoToken
  /\ NoteSwitchFailed
  /\ req' = NoReq
  /\ Note401(o) /\ UNCHANGED <<lastThrow, switchCalls, runs, script>>
  /\ SwitchThrows
  /\ UNCHANGED <<lastSwitch, baseFailed>>

\* --------------------------------------------------------- graphqlQuery
\* (variant used to test C13) every call site forces the refresh
ForceRefreshAlways == pc \in GqlSites

\* forceRefreshCsrf of the call site: only the job listing passes switchedOrg
ForceRefresh == pc = "jobs" /\ switchedOrg

\* (variant used to test C35) the session's token is dropped before the
\* refresh is attempted
GraphqlEnterDropsToken ==
  /\ pc \in GqlSites /\ step = "enter"
  /\ IF csrfToken = NoToken \/ ForceRefresh
     THEN /\ step' = "tok" /\ tokAttempt' = 0
          /\ csrfToken' = NoToken
          /\ UNCHANGED localToken
     ELSE /\ step' = "qry" /\ localToken' = csrfToken
          /\ UNCHANGED <<tokAttempt, csrfToken>>
  /\ pages' = IF pc = "name" THEN <<>> ELSE pages
  /\ sentCursors' = IF pc = "name" THEN <<>> ELSE sentCursors
  /\ UNCHANGED <<pc, cfgVars, loopVars, aggVars, outVars, enrVars, req,
                 fetchVars, lastSwitch, verified, returned, switchFailed,
                 baseFailed, seen401, lastThrow, switchCalls, runs, script>>

\* let csrfToken = session.csrfToken; if (!csrfToken || forceRefreshCsrf) ...
GraphqlEnter ==
  /\ pc \in GqlSites /\ step = "enter"
  /\ IF csrfToken = NoToken \/ ForceRefresh
     THEN /\ step' = "tok" /\ tokAttempt' = 0
          /\ UNCHANGED localToken
     ELSE /\ step' = "qry" /\ localToken' = csrfToken
          /\ UNCHANGED tokAttempt
  /\ pages' = IF pc = "name" THEN <<>> ELSE pages
  /\ sentCursors' = IF pc = "name" THEN <<>> ELSE sentCursors
  /\ UNCHANGED <<pc, cfgVars, loopVars, aggVars, outVars, enrVars, csrfToken, req,
                 fetchVars, lastSwitch, verified, returned, switchFailed,
                 baseFailed, seen401, lastThrow, switchCalls, runs, script>>

\* csrfToken = await fetchCsrfToken(session); session.csrfToken = csrfToken
GraphqlTokenOk ==
  /\ pc \in GqlSites /\ step = "tok" /\ req.kind = "token" /\ req.answer = "ok"
  /\ csrfToken' = Fresh
  /\ localToken' = Fresh
  /\ step' = "qry"
  /\ req' = NoReq
  /\ UNCHANGED <<pc, cfgVars, loopVars, aggVars, outVars, enrVars, tokAttempt,
                 fetchVars, histVars>>

\* const res = await fetch(url, { method: 'POST', headers, body })
GraphqlSend ==
  /\ pc \in GqlSites /\ step = "qry" /\ req = NoReq
  /\ req' = [kind |-> pc, org |-> CurOrgId, token |-> localToken,
             cursor |-> IF pc = "apps" THEN cursor ELSE NullCursor,
             answer |-> "-"]
  /\ sentCursors' = IF pc = "apps" THEN Append(sentCursors, cursor) ELSE sentCursors
  /\ UNCHANGED <<pc, step, cfgVars, loopVars, aggVars, outVars, enrVars, csrfToken,
                 localToken, tokAttempt, fetchVars, lastSwitch,
                 verified, pages, returned, switchFailed, baseFailed, seen401, lastThrow, switchCalls, runs, script>>

\* graphqlQuery is about to throw at the current site with outcome o: the
\* token fetch gave up, or the query was answered with a failure
GraphqlFails(site, o) ==
  /\ pc = site
  /\ \/ step = "tok" /\ req.kind = "token" /\ req.answer = o /\ TokenGivesUp(o)
     \/ step = "qry" /\ req.kind = site /\ o \in QueryFailures

\* ------------------------------- switchOrgContext: verification query
\* the answer is only logged (line 338); the reported tenant is not compared
\* r is the organizationId the remote reports as active
VerifyOk(r) ==
  /\ pc = "verify" /\ step = "qry" /\ req.kind = "verify"
  /\ r \in OrgIds
  /\ verified' = IF r = CurOrgId THEN "match" ELSE "mismatch"
  /\ req' = NoReq
  /\ SwitchReturns
  /\ UNCHANGED <<csrfToken, lastSwitch, switchFailed,
                 baseFailed, seen401, lastThrow, switchCalls, runs, script>>

\* catch: "Continue anyway" (lines 339-342)
VerifyFail(o) ==
  /\ GraphqlFails("verify", o)
  /\ verified' = "failed"
  /\ req' = NoReq
  /\ Note401(o) /\ UNCHANGED <<lastThrow, switchCalls, runs, script>>
  /\ SwitchReturns
  /\ UNCHANGED <<csrfToken, lastSwitch, switchFailed, baseFailed>>

\* ------------------------------------ fetchPipelineForOrg: base queries
JobsOk(jobs) ==
  /\ pc = "jobs" /\ step = "qry" /\ req.kind = "jobs"
  /\ jobs \in JobsResponses
  /\ jobsData' = jobs
  /\ pc' = "apps" /\ step' = "enter"
  /\ req' = NoReq
  /\ verified' = "none"
  /\ UNCHANGED <<cfgVars, loopVars, aggVars, outVars, enrVars, csrfToken, localToken,
                 tokAttempt, switchedOrg, allApplications, cursor,
                 hasMore, orgName, lastSwitch, pages, sentCursors,
                 returned, switchFailed, baseFailed, seen401, lastThrow, switchCalls, runs, script>>

\* catch (error) { throw error }: the failure reaches extractCommand
JobsFail(o) ==
  /\ GraphqlFails("jobs", o)
  /\ baseFailed' = IF attempt = maxRetries THEN baseFailed \cup {CurOrgId}
                   ELSE baseFailed
  /\ req' = NoReq
  /\ Note401(o) /\ lastThrow' = o /\ UNCHANGED <<switchCalls, runs, script>>
  /\ PipelineThrows
  /\ UNCHANGED <<csrfToken, lastSwitch, switchFailed>>

\* (variant used to test C8) the cursor of the answer is not taken over
AppsOkKeepsCursor(next, more, empty) ==
  /\ pc = "apps" /\ step = "qry" /\ req.kind = "apps"
  /\ next \in Cursors /\ more \in BOOLEAN /\ empty \in BOOLEAN
  /\ empty => (Len(pages) = 0 /\ ~more)
  /\ more => Len(pages) + 1 < MaxPages
  /\ LET results == IF empty THEN <<>> ELSE PageContent(Len(pages) + 1) IN
       /\ allApplications' = allApplications \o results
       /\ pages' = Append(pages, [results |-> results, nextCursor |-> next,
                                  more |-> more])
  /\ hasMore' = more
  /\ pc' = IF more THEN "apps" ELSE "name"
  /\ step' = "enter"
  /\ req' = NoReq
  /\ UNCHANGED <<cfgVars, loopVars, aggVars, outVars, enrVars, csrfToken,
                 localToken, tokAttempt, switchedOrg, jobsData, orgName, cursor,
                 lastSwitch, verified, sentCursors, returned, switchFailed,
                 baseFailed, seen401, lastThrow, switchCalls, runs, script>>

\* one page of the while (hasMore) loop, lines 551-572; the answer carries
\* the next page of the fixture, a cursor and the moreDataAvailable flag
\* (empty: the tenant has no active application, its only page is empty)
AppsOk(next, more, empty) ==
  /\ pc = "apps" /\ step = "qry" /\ req.kind = "apps"
  /\ next \in Cursors /\ more \in BOOLEAN /\ empty \in BOOLEAN
  /\ empty => (Len(pages) = 0 /\ ~more)
  /\ more => Len(pages) + 1 < MaxPages
  /\ LET results == IF empty THEN <<>> ELSE PageContent(Len(pages) + 1) IN
       /\ allApplications' = allApplications \o results
       /\ pages' = Append(pages, [results |-> results, nextCursor |-> next,
                                  more |-> more])
  /\ cursor' = next
  /\ hasMore' = more
  /\ pc' = IF more THEN "apps" ELSE "name"
  /\ step' = "enter"
  /\ req' = NoReq
  /\ UNCHANGED <<cfgVars, loopVars, aggVars, outVars, enrVars, csrfToken, localToken,
                 tokAttempt, switchedOrg, jobsData, orgName, lastSwitch,
                 verified, sentCursors, returned, switchFailed, baseFailed,
                 seen401, lastThrow, switchCalls, runs, script>>

\* catch: "Continuing with empty applications list" (lines 574-578);
\* allApplications keeps the pages pushed so far
AppsFail(o) ==
  /\ GraphqlFails("apps", o)
  /\ baseFailed' = baseFailed \cup {CurOrgId}
  /\ hasMore' = hasMore
  /\ pc' = "name" /\ step' = "enter"
  /\ req' = NoReq
  /\ Note401(o) /\ UNCHANGED <<lastThrow, switchCalls, runs, script>>
  /\ UNCHANGED <<cfgVars, loopVars, aggVars, outVars, enrVars, csrfToken, localToken,
                 tokAttempt, switchedOrg, jobsData, allApplications,
                 cursor, orgName, lastSwitch, verified, pages,
                 sentCursors, returned, switchFailed>>

\* Step 3: session-user query for the tenant's name, then normalize and return
\* if (userResponse.user.organizationId === orgId) orgName = organizationName
NameOk(r) ==
  /\ pc = "name" /\ step = "qry" /\ req.kind = "name"
  /\ r \in OrgIds
  /\ req' = NoReq
  /\ PipelineReturns(normalizePipelineData(jobsData, allApplications, CurOrgId,
        IF r = CurOrgId THEN r ELSE NoName))
  /\ UNCHANGED <<csrfToken, lastSwitch, switchFailed,
                 baseFailed, seen401, lastThrow, switchCalls, runs, script>>

NameFail(o) ==
  /\ GraphqlFails("name", o)
  /\ req' = NoReq
  /\ Note401(o) /\ UNCHANGED <<lastThrow, switchCalls, runs, script>>
  /\ PipelineReturns(normalizePipelineData(jobsData, allApplications, CurOrgId, NoName))
  /\ UNCHANGED <<csrfToken, lastSwitch, switchFailed, baseFailed>>

\* ------------------------------------------- extractCommand: the end
\* if (allCandidates.length === 0) { process.exitCode = 1; return; }
SummaryEmpty ==
  /\ pc = "summary" /\ allCandidates = <<>>
  /\ exitCode' = 1
  /\ pc' = "done"
  /\ UNCHANGED <<step, cfgVars, loopVars, aggVars, exported, enrVars, csrfToken,
                 localToken, tokAttempt, req, fetchVars, histVars>>

\* orgIdToUserId.get(orgId), over the orgInfos passed by extractCommand
UserIdOf(orgId) ==
  IF \E k \in 1..Len(orgInfos) : orgInfos[k].id = orgId
  THEN orgInfos[CHOOSE k \in 1..Len(orgInfos) : orgInfos[k].id = orgId].userId
  ELSE NoUser

\* if (options.detailed) allCandidates = await enrichCandidatesWithDetails(...)
\* The history of the tenant loop's failures (switchFailed, baseFailed, seen401)
\* ends here: the properties about it are stated for mode = "extract".
EnrichStart ==
  /\ pc = "summary" /\ allCandidates # <<>> /\ detailed
  /\ mode' = "enrich"
  /\ groups' = GroupByOrg(allCandidates, <<>>)
  /\ g' = 1 /\ off' = 0 /\ batch' = <<>>
  /\ enrichedCandidates' = <<>>
  /\ currentOrgContext' = NoOrg
  /\ pc' = "enrich_head"
  /\ switchFailed' = {} /\ baseFailed' = {} /\ seen401' = "no"
  /\ UNCHANGED <<lastThrow, switchCalls, runs, script>>
  /\ UNCHANGED <<step, cfgVars, loopVars, aggVars, outVars, csrfToken, localToken,
                 tokAttempt, req, fetchVars, lastSwitch, verified, pages, sentCursors,
                 returned>>

\* EnrichGroup whose branch for a group without userId drops the group's
\* records instead of passing them through
EnrichGroupDropsSkipped ==
  /\ pc = "enrich_head" /\ g <= Len(groups)
  /\ IF UserIdOf(groups[g].orgId) = NoUser
     THEN /\ enrichedCandidates' = enrichedCandidates
          /\ g' = g + 1
          /\ UNCHANGED <<pc, step, tokAttempt, verified, switchCalls, runs, script>>
     ELSE IF currentOrgContext # groups[g].orgId
     THEN /\ pc' = "switch" /\ step' = "pre_tok"
          /\ tokAttempt' = 0
          /\ verified' = "none"
          /\ switchCalls' = [switchCalls EXCEPT ![groups[g].orgId] = @ + 1]
          /\ UNCHANGED <<runs, script>>
          /\ UNCHANGED <<enrichedCandidates, g>>
     ELSE /\ pc' = "batch_head"
          /\ UNCHANGED <<step, tokAttempt, verified, enrichedCandidates, g,
                         switchCalls, runs, script>>
  /\ UNCHANGED <<cfgVars, loopVars, aggVars, outVars, mode, groups, off, batch,
                 currentOrgContext, csrfToken, localToken, req, fetchVars,
                 lastSwitch, pages, sentCursors, returned, switchFailed,
                 baseFailed, seen401, lastThrow>>

\* for (const [orgId, orgCandidates] of candidatesByOrg.entries()): a group
\* without userId is passed through; otherwise switchOrgContext is called
EnrichGroup ==
  /\ pc = "enrich_head" /\ g <= Len(groups)
  /\ IF UserIdOf(groups[g].orgId) = NoUser
     THEN /\ enrichedCandidates' = enrichedCandidates \o groups[g].cands
          /\ g' = g + 1
          /\ UNCHANGED <<pc, step, tokAttempt, verified, switchCalls, runs, script>>
     ELSE IF currentOrgContext # groups[g].orgId
     THEN /\ pc' = "switch" /\ step' = "pre_tok"
          /\ tokAttempt' = 0
          /\ verified' = "none"
          /\ switchCalls' = [switchCalls EXCEPT ![groups[g].orgId] = @ + 1]
          /\ UNCHANGED <<runs, script>>
          /\ UNCHANGED <<enrichedCandidates, g>>
     ELSE /\ pc' = "batch_head"
          /\ UNCHANGED <<step, tokAttempt, verified, enrichedCandidates, g,
                         switchCalls, runs, script>>
  /\ UNCHANGED <<cfgVars, loopVars, aggVars, outVars, mode, groups, off, batch,
                 currentOrgContext, csrfToken, localToken, req, fetchVars,
                 lastSwitch, pages, sentCursors, returned, switchFailed,
                 baseFailed, seen401, lastThrow>>

\* BatchStart with a slice that has no end: every remaining record of the
\* group is started at once
BatchStartUnbounded ==
  /\ pc = "batch_head" /\ off < Len(groups[g].cands)
  /\ LET cs == groups[g].cands
     IN batch' = [k \in 1..(Len(cs) - off) |->
                    [cand |-> cs[off + k], st |-> "start", token |-> NoToken]]
  /\ pc' = "batch"
  /\ UNCHANGED <<step, cfgVars, loopVars, aggVars, outVars, mode, groups, g, off,
                 enrichedCandidates, currentOrgContext, csrfToken, localToken,
                 tokAttempt, req, fetchVars, histVars>>

\* Array.prototype.slice(start, end): a negative index counts from the end
\* of the array, an index beyond an end of the array is that end, and the
\* slice is empty when end is not after start
SliceIndex(cs, k) ==
  IF k < 0 THEN (IF Len(cs) + k < 0 THEN 0 ELSE Len(cs) + k)
  ELSE (IF k > Len(cs) THEN Len(cs) ELSE k)
slice(cs, start, end) == SubSeq(cs, SliceIndex(cs, start) + 1, SliceIndex(cs, end))

\* for (let i = 0; i < orgCandidates.length; i += maxConcurrent):
\* batch = orgCandidates.slice(i, i + maxConcurrent); every task of the batch
\* is started by batch.map
BatchStart ==
  /\ pc = "batch_head" /\ off < Len(groups[g].cands)
  /\ LET records == slice(groups[g].cands, off, off + maxConcurrent)
     IN batch' = [k \in 1..Len(records) |->
                    [cand |-> records[k], st |-> "start", token |-> NoToken]]
  /\ pc' = "batch"
  /\ UNCHANGED <<step, cfgVars, loopVars, aggVars, outVars, mode, groups, g, off,
                 enrichedCandidates, currentOrgContext, csrfToken, localToken,
                 tokAttempt, req, fetchVars, histVars>>

\* DetailSend without the test of fetchAll and needsScheduling
DetailSendIgnoresFlag(k) ==
  /\ pc = "batch" /\ k \in 1..Len(batch)
  /\ batch[k].st = "start"
  /\ csrfToken # NoToken
  /\ batch' = [batch EXCEPT ![k].st = "sent", ![k].token = csrfToken]
  /\ UNCHANGED <<pc, step, cfgVars, loopVars, aggVars, outVars, mode, groups, g,
                 off, enrichedCandidates, currentOrgContext, csrfToken,
                 localToken, tokAttempt, req, fetchVars, histVars>>

\* fetchApplicationDetails -> graphqlQuery of one task: the session holds a
\* token (BatchHasToken), so the query is sent with it
DetailSend(k) ==
  /\ pc = "batch" /\ k \in 1..Len(batch)
  /\ batch[k].st = "start"
  /\ fetchAll \/ batch[k].cand.needsScheduling
  /\ csrfToken # NoToken
  /\ batch' = [batch EXCEPT ![k].st = "sent", ![k].token = csrfToken]
  /\ UNCHANGED <<pc, step, cfgVars, loopVars, aggVars, outVars, mode, groups, g,
                 off, enrichedCandidates, currentOrgContext, csrfToken,
                 localToken, tokAttempt, req, fetchVars, histVars>>

\* if (!fetchAll && !candidate.needsScheduling) return candidate;
DetailSkip(k) ==
  /\ pc = "batch" /\ k \in 1..Len(batch)
  /\ batch[k].st = "start"
  /\ ~fetchAll /\ ~batch[k].cand.needsScheduling
  /\ batch' = [batch EXCEPT ![k].st = "done"]
  /\ UNCHANGED <<pc, step, cfgVars, loopVars, aggVars, outVars, mode, groups, g,
                 off, enrichedCandidates, currentOrgContext, csrfToken,
                 localToken, tokAttempt, req, fetchVars, histVars>>

\* the task's answer holds an application: the candidate is enriched
\* (the answer has the shape of ApplicationDetailResponse, so that the
\* mapping of its interview events does not throw)
DetailOk(k) ==
  /\ pc = "batch" /\ k \in 1..Len(batch)
  /\ batch[k].st = "sent"
  /\ batch' = [batch EXCEPT ![k].st = "done", ![k].cand.enriched = TRUE]
  /\ UNCHANGED <<pc, step, cfgVars, loopVars, aggVars, outVars, mode, groups, g,
                 off, enrichedCandidates, currentOrgContext, csrfToken,
                 localToken, tokAttempt, req, fetchVars, histVars>>

\* DetailFail that ends the whole batch: the other tasks are given up
DetailFailEndsBatch(k, o) ==
  /\ pc = "batch" /\ k \in 1..Len(batch)
  /\ batch[k].st = "sent"
  /\ o \in QueryFailures \cup {"noapplication"}
  /\ batch' = [j \in 1..Len(batch) |-> [batch[j] EXCEPT !.st = "done"]]
  /\ seen401' = IF o = "http401" /\ seen401 = "no" THEN "this" ELSE seen401
  /\ UNCHANGED <<lastThrow, switchCalls, runs, script>>
  /\ UNCHANGED <<pc, step, cfgVars, loopVars, aggVars, outVars, mode, groups, g,
                 off, enrichedCandidates, currentOrgContext, csrfToken,
                 localToken, tokAttempt, req, fetchVars, lastSwitch, verified,
                 pages, sentCursors, returned, switchFailed, baseFailed>>

\* the task's query failed, or the answer holds no application:
\* fetchApplicationDetails returns null and the original candidate is kept
DetailFail(k, o) ==
  /\ pc = "batch" /\ k \in 1..Len(batch)
  /\ batch[k].st = "sent"
  /\ o \in QueryFailures \cup {"noapplication"}
  /\ batch' = [batch EXCEPT ![k].st = "done"]
  /\ seen401' = IF o = "http401" /\ seen401 = "no" THEN "this" ELSE seen401
  /\ UNCHANGED <<lastThrow, switchCalls, runs, script>>
  /\ UNCHANGED <<pc, step, cfgVars, loopVars, aggVars, outVars, mode, groups, g,
                 off, enrichedCandidates, currentOrgContext, csrfToken,
                 localToken, tokAttempt, req, fetchVars, lastSwitch, verified,
                 pages, sentCursors, returned, switchFailed, baseFailed>>

\* BatchJoin without Promise.all: the loop goes on as soon as one task is
\* done and leaves the others in flight
BatchJoinWithoutAwait ==
  /\ pc = "batch"
  /\ \E k \in 1..Len(batch) : batch[k].st = "done"
  /\ enrichedCandidates' = enrichedCandidates \o [k \in 1..Len(batch) |-> batch[k].cand]
  /\ off' = off + maxConcurrent
  /\ batch' = SelectSeq(batch, LAMBDA t : t.st # "done")
  /\ pc' = "batch_head"
  /\ UNCHANGED <<step, cfgVars, loopVars, aggVars, outVars, mode, groups, g,
                 currentOrgContext, csrfToken, localToken, tokAttempt, req,
                 fetchVars, histVars>>

\* Promise.all resolved: enrichedCandidates.push(...enrichedBatch)
BatchJoin ==
  /\ pc = "batch"
  /\ \A k \in 1..Len(batch) : batch[k].st = "done"
  /\ enrichedCandidates' = enrichedCandidates \o [k \in 1..Len(batch) |-> batch[k].cand]
  /\ off' = IF off + maxConcurrent < -MaxBackward THEN -MaxBackward
             ELSE off + maxConcurrent
  /\ batch' = <<>>
  /\ pc' = "batch_head"
  /\ UNCHANGED <<step, cfgVars, loopVars, aggVars, outVars, mode, groups, g,
                 currentOrgContext, csrfToken, localToken, tokAttempt, req,
                 fetchVars, histVars>>

\* the batch loop of this group is over: next group
GroupDone ==
  /\ pc = "batch_head" /\ off >= Len(groups[g].cands)
  /\ g' = g + 1
  /\ off' = 0
  /\ pc' = "enrich_head"
  /\ UNCHANGED <<step, cfgVars, loopVars, aggVars, outVars, mode, groups, batch,
                 enrichedCandidates, currentOrgContext, csrfToken, localToken,
                 tokAttempt, req, fetchVars, histVars>>

\* return enrichedCandidates; allCandidates = <the result>
\* (a call made on its own ends here, its argument left as it was)
EnrichReturn ==
  /\ pc = "enrich_head" /\ g > Len(groups)
  /\ allCandidates' = IF client = "api" THEN enrichedCandidates ELSE allCandidates
  /\ pc' = IF client = "api" THEN "export" ELSE "e_done"
  /\ UNCHANGED <<step, cfgVars, loopVars, allCompanies, allJobs, failedOrgs,
                 outVars, enrVars, csrfToken, localToken, tokAttempt, req,
                 fetchVars, histVars>>

\* exportCSV: jobById = new Map(data.jobs.map(j => [j.id, j])) keeps, for
\* each id, the last job of the list; every candidate makes one row, joined
\* with jobById.get(cand.jobId)
jobById(jobs, id) ==
  LET at == {k \in 1..Len(jobs) : jobs[k].id = id}
  IN IF at = {} THEN [id |-> id, title |-> <<>>, companyId |-> DefaultCompany]
     ELSE jobs[CHOOSE k \in at : \A j \in at : j <= k]
exportCSV(data) ==
  [k \in 1..Len(data.candidates) |->
     [candidate_id |-> data.candidates[k].id,
      org |-> data.candidates[k].orgId,
      job_id |-> data.candidates[k].jobId,
      job_title |-> jobById(data.jobs, data.candidates[k].jobId).title]]

\* exportJSON / exportCSV of { companies, jobs, candidates }
Export ==
  /\ \/ pc = "summary" /\ allCandidates # <<>> /\ ~detailed
     \/ pc = "export"
  /\ exported' = <<[companies |-> allCompanies, jobs |-> allJobs,
                    candidates |-> allCandidates]>>
  /\ pc' = "done"
  /\ UNCHANGED <<step, cfgVars, loopVars, aggVars, exitCode, enrVars, csrfToken,
                 localToken, tokAttempt, req, fetchVars, histVars>>

\* ------------------------------- extractCommand: session and discovery
\* LoadSession without the test of the two authentication cookies
LoadSessionUnchecked ==
  /\ pc = "load"
  /\ IF session \in {"none", "nocookies"}
     THEN pc' = "crashed" /\ exitCode' = 1 /\ UNCHANGED <<step, tokAttempt>>
     ELSE pc' = "discover" /\ step' = "tok" /\ tokAttempt' = 0 /\ UNCHANGED exitCode
  /\ UNCHANGED <<cfgVars, loopVars, aggVars, exported, enrVars, csrfToken,
                 localToken, req, fetchVars, histVars>>

\* const session = await loadSession() and the two checks of the session:
\* loadSession throws when it finds nothing (nothing catches it); a session
\* without a cookies object makes the cookie test throw; a session without
\* the two authentication cookies ends the command with exitCode 1
LoadSession ==
  /\ pc = "load"
  /\ IF session \in {"none", "nocookies"}
     THEN pc' = "crashed" /\ exitCode' = 1 /\ UNCHANGED <<step, tokAttempt>>
     ELSE IF session = "noauth"
     THEN pc' = "done" /\ exitCode' = 1 /\ UNCHANGED <<step, tokAttempt>>
     ELSE pc' = "discover" /\ step' = "tok" /\ tokAttempt' = 0 /\ UNCHANGED exitCode
  /\ UNCHANGED <<cfgVars, loopVars, aggVars, exported, enrVars, csrfToken,
                 localToken, req, fetchVars, histVars>>

\* fetchAllAvailableOrgs: csrfToken = await fetchCsrfToken(session) succeeded;
\* the token is stored and the identities are requested with it
DiscoverTokenOk ==
  /\ pc = "discover" /\ step = "tok"
  /\ req.kind = "token" /\ req.answer = "ok"
  /\ csrfToken' = Fresh
  /\ req' = [kind |-> "identities", org |-> NoOrg, token |-> Fresh,
             cursor |-> NullCursor, answer |-> "-"]
  /\ step' = "ids"
  /\ UNCHANGED <<pc, cfgVars, loopVars, aggVars, outVars, enrVars, localToken,
                 tokAttempt, fetchVars, histVars>>

\* the token fetch of discovery threw: fetchAllAvailableOrgs rethrows and
\* extractCommand ends with exitCode 1
DiscoverTokenFail(o) ==
  /\ pc = "discover" /\ step = "tok"
  /\ req.kind = "token" /\ req.answer = o /\ TokenGivesUp(o)
  /\ req' = NoReq
  /\ exitCode' = 1
  /\ pc' = "done" /\ step' = "-"
  /\ Note401(o) /\ UNCHANGED <<lastThrow, switchCalls, runs, script>>
  /\ UNCHANGED <<cfgVars, loopVars, aggVars, exported, enrVars, csrfToken,
                 localToken, tokAttempt, fetchVars, lastSwitch, verified, pages,
                 sentCursors, returned, switchFailed, baseFailed>>

IdentityFailures == {"http401", "httperr", "reject", "badjson"}

\* the answer to the identities request, and what extractCommand does with
\* the tenants discovered up to the first await of its loop: a non-OK answer
\* is an empty list; no tenant, or none matching the filter, ends the command
\* with exitCode 1; the filter, then the cap, give orgsToProcess
DiscoverAnswer(o) ==
  /\ pc = "discover" /\ step = "ids" /\ req.kind = "identities"
  /\ o \in {"ok"} \cup IdentityFailures
  /\ req' = NoReq
  /\ step' = "-"
  /\ LET found == IF o = "ok" THEN OrgMapOf(identities, <<>>) ELSE <<>>
         filtered == IF orgFilter.defined THEN FilterByName(found, orgFilter) ELSE found
     IN IF o \in {"reject", "badjson"}
        THEN pc' = "done" /\ exitCode' = 1 /\ UNCHANGED <<orgInfos, orgsToProcess>>
        ELSE /\ orgInfos' = found
             /\ IF found = <<>>
                THEN pc' = "done" /\ exitCode' = 1 /\ UNCHANGED orgsToProcess
                ELSE IF orgFilter.defined /\ FilterThrows(found)
                THEN pc' = "crashed" /\ exitCode' = 1 /\ orgsToProcess' = found
                ELSE IF filtered = <<>>
                THEN pc' = "done" /\ exitCode' = 1 /\ orgsToProcess' = filtered
                ELSE /\ orgsToProcess' = IF maxOrgs # 0 THEN SliceTo(filtered, maxOrgs)
                                         ELSE filtered
                     /\ pc' = "loop_head" /\ UNCHANGED exitCode
  /\ Note401(o) /\ UNCHANGED <<lastThrow, switchCalls, runs, script>>
  /\ UNCHANGED <<inputVars, loopVars, aggVars, exported, enrVars, csrfToken,
                 localToken, tokAttempt, fetchVars, lastSwitch, verified, pages,
                 sentCursors, returned, switchFailed, baseFailed>>

\* ================================================== BrowserClient
\* (src/src/browser-client.ts) one call of fetchPipelineForOrg(orgId, userId)
BrowserSites == {"b_pre", "b_post", "b_jobs", "b_apps"}

\* `${orgId}-company`
OrgCompany(orgId) == 10 + orgId

\* BrowserClient.computeNeedsScheduling (browser-client.ts 590-607)
BrowserInterviewKeywords ==
  {<<"i", "n", "t", "e", "r", "v", "i", "e", "w">>,
   <<"o", "n", "s", "i", "t", "e">>,
   <<"t", "e", "c", "h", "n", "i", "c", "a", "l">>,
   <<"s", "c", "r", "e", "e", "n", "i", "n", "g">>,
   <<"c", "a", "l", "l">>}
\* its isInterviewStage of each stage type, computed once
BrowserIsInterviewStage ==
  [stageType \in StageTypes |->
     \E keyword \in BrowserInterviewKeywords :
       includes(toLowerCase(stageType.text), keyword)]
BrowserComputeNeedsScheduling(stageType, daysInStage) ==
  IF ~stageType.defined \/ stageType.text = <<>> THEN FALSE
  ELSE BrowserIsInterviewStage[stageType] /\ daysInStage >= Threshold

\* daysInStage = dueAt ? floor((Date.now() - dueAt) / day)
\*                     : floor((Date.now() - createdAt) / day);
\* finalDaysInStage = Math.max(0, daysInStage)
BrowserDaysInStage(app, today) ==
  LET daysInStage == IF app.dueAt # NoDate THEN today - app.dueAt
                     ELSE today - app.createdAt
  IN IF daysInStage > 0 THEN daysInStage ELSE 0

\* BrowserClient.normalizePipelineData: one company per tenant, a job per
\* listed job, a candidate per application whose job is listed
BrowserNormalize(jobs, applications, orgId) ==
  LET listed == SelectSeq(applications, LAMBDA a : InSeq(a.jobId, jobs)) IN
  [companies |-> IF jobs = <<>> THEN <<>> ELSE <<OrgCompany(orgId)>>,
   jobs |-> [k \in 1..Len(jobs) |-> [id |-> jobs[k], companyId |-> OrgCompany(orgId)]],
   candidates |-> [k \in 1..Len(listed) |->
                     [id |-> listed[k].id,
                      jobId |-> listed[k].jobId,
                      companyId |-> OrgCompany(orgId),
                      orgId |-> orgId,
                      orgName |-> orgId,
                      stageType |-> StageTypeOrNull(listed[k]),
                      daysInStage |-> BrowserDaysInStage(listed[k], now),
                      needsScheduling |->
                        BrowserComputeNeedsScheduling(StageTypeOrNull(listed[k]),
                          BrowserDaysInStage(listed[k], now)),
                      enriched |-> FALSE]]]

\* an exception leaves fetchPipelineForOrg (nothing catches it there)
BrowserThrows ==
  /\ pc' = "b_done" /\ step' = "thrown"
  /\ UNCHANGED <<cfgVars, loopVars, aggVars, outVars, enrVars, localToken,
                 tokAttempt, fetchVars, verified, pages, sentCursors, returned,
                 baseFailed>>

\* return this.normalizePipelineData(jobsData.jobsPipelines, allApplications, orgId)
BrowserReturns ==
  /\ returned' = [returned EXCEPT ![CurOrgId] =
                    <<BrowserNormalize(jobsData, allApplications, CurOrgId)>>]
  /\ pc' = "b_done" /\ step' = "returned"

\* if (userId && orgId !== 'default') await this.switchOrgContext(userId)
BrowserStart ==
  /\ pc = "b_start"
  /\ pc' = IF CurOrg.userId # NoUser THEN "b_pre" ELSE "b_jobs"
  /\ step' = "enter"
  /\ UNCHANGED <<cfgVars, loopVars, aggVars, outVars, enrVars, csrfToken,
                 localToken, tokAttempt, req, fetchVars, histVars>>

\* getCsrfToken: the cached token, else the token the page holds (found),
\* else GET /api/csrf/token
BrowserGetCsrfToken(found) ==
  /\ pc \in BrowserSites /\ step = "enter"
  /\ found \in BOOLEAN
  /\ IF csrfToken # NoToken
     THEN found /\ step' = "have" /\ UNCHANGED <<csrfToken, req>>
     ELSE IF found
     THEN csrfToken' = Fresh /\ step' = "have" /\ UNCHANGED req
     ELSE /\ req' = [kind |-> "token", org |-> CurOrgId, token |-> NoToken,
                     cursor |-> NullCursor,
             answer |-> "-"]
          /\ step' = "tok"
          /\ UNCHANGED csrfToken
  /\ UNCHANGED <<pc, cfgVars, loopVars, aggVars, outVars, enrVars, localToken,
                 tokAttempt, fetchVars, histVars>>

\* response.ok(): this.csrfToken = data.token
BrowserTokenOk ==
  /\ pc \in BrowserSites /\ step = "tok" /\ req.kind = "token" /\ req.answer = "ok"
  /\ csrfToken' = Fresh
  /\ step' = "have"
  /\ req' = NoReq
  /\ UNCHANGED <<pc, cfgVars, loopVars, aggVars, outVars, enrVars, localToken,
                 tokAttempt, fetchVars, histVars>>

\* throw new Error(`Failed to fetch CSRF token: ...`): inside the pagination
\* loop the catch of fetchPipelineForOrg takes it, elsewhere it leaves the call
BrowserTokenFail(o) ==
  /\ pc \in BrowserSites /\ step = "tok" /\ req.kind = "token"
  /\ o \in TokenFailures /\ req.answer = o
  /\ req' = NoReq
  /\ Note401(o) /\ UNCHANGED <<lastThrow, switchCalls, runs, script>>
  /\ IF pc = "b_apps"
     THEN /\ BrowserReturns
          /\ baseFailed' = baseFailed \cup {CurOrgId}
          /\ UNCHANGED <<cfgVars, loopVars, aggVars, outVars, enrVars, localToken,
                         tokAttempt, fetchVars, verified, pages, sentCursors>>
     ELSE BrowserThrows
  /\ UNCHANGED <<csrfToken, lastSwitch, switchFailed>>

\* switchOrgContext: POST /api/auth/change_user/<userId> with the token held
BrowserSendSwitch ==
  /\ pc = "b_pre" /\ step = "have"
  /\ req' = [kind |-> "switch", org |-> CurOrgId, token |-> csrfToken,
             cursor |-> NullCursor,
             answer |-> "-"]
  /\ csrfToken' = Age(csrfToken)
  /\ lastSwitch' = [target |-> CurOrgId, status |-> "pending"]
  /\ pc' = "b_req" /\ step' = "-"
  /\ UNCHANGED <<cfgVars, loopVars, aggVars, outVars, enrVars, localToken,
                 tokAttempt, fetchVars, verified, pages, sentCursors, returned,
                 switchFailed, baseFailed, seen401, lastThrow, switchCalls, runs, script>>

\* response.ok(): this.csrfToken = null, then page.goto
BrowserSwitchOk ==
  /\ pc = "b_req" /\ req.kind = "switch"
  /\ csrfToken' = NoToken
  /\ lastSwitch' = [lastSwitch EXCEPT !.status = "ok"]
  /\ pc' = "b_goto"
  /\ req' = NoReq
  /\ UNCHANGED <<step, cfgVars, loopVars, aggVars, outVars, enrVars, localToken,
                 tokAttempt, fetchVars, verified, pages, sentCursors, returned,
                 switchFailed, baseFailed, seen401, lastThrow, switchCalls, runs, script>>

\* !response.ok(): throw; the cached token is not touched
BrowserSwitchFail(o) ==
  /\ pc = "b_req" /\ req.kind = "switch"
  /\ o \in SwitchFailures
  /\ lastSwitch' = [lastSwitch EXCEPT !.status = "failed"]
  /\ NoteSwitchFailed
  /\ req' = NoReq
  /\ Note401(o) /\ UNCHANGED <<lastThrow, switchCalls, runs, script>>
  /\ BrowserThrows
  /\ UNCHANGED csrfToken

\* await this.page.goto(...): the navigation completes, or times out and throws
BrowserGoto(ok) ==
  /\ pc = "b_goto"
  /\ ok \in BOOLEAN
  /\ IF ok
     THEN /\ pc' = "b_post" /\ step' = "enter"
          /\ UNCHANGED <<cfgVars, loopVars, aggVars, outVars, enrVars, localToken,
                         tokAttempt, fetchVars, verified, pages, sentCursors,
                         returned, baseFailed>>
     ELSE BrowserThrows
  /\ UNCHANGED <<csrfToken, req, lastSwitch, switchFailed, seen401, lastThrow, switchCalls, runs, script>>

\* switchOrgContext returned: go on to the job listing
BrowserSwitched ==
  /\ pc = "b_post" /\ step = "have"
  /\ pc' = "b_jobs" /\ step' = "enter"
  /\ UNCHANGED <<cfgVars, loopVars, aggVars, outVars, enrVars, csrfToken,
                 localToken, tokAttempt, req, fetchVars, histVars>>

\* graphqlQuery: this.page.request.post with the token of getCsrfToken
BrowserSend ==
  /\ pc \in {"b_jobs", "b_apps"} /\ step = "have"
  /\ req' = [kind |-> IF pc = "b_jobs" THEN "jobs" ELSE "apps", org |-> CurOrgId,
             token |-> csrfToken,
             cursor |-> IF pc = "b_apps" THEN cursor ELSE NullCursor,
             answer |-> "-"]
  /\ sentCursors' = IF pc = "b_apps" THEN Append(sentCursors, cursor) ELSE sentCursors
  /\ step' = "qry"
  /\ UNCHANGED <<pc, cfgVars, loopVars, aggVars, outVars, enrVars, csrfToken,
                 localToken, tokAttempt, fetchVars, lastSwitch, verified, pages,
                 returned, switchFailed, baseFailed, seen401, lastThrow, switchCalls, runs, script>>

BrowserJobsOk(jobs) ==
  /\ pc = "b_jobs" /\ step = "qry" /\ req.kind = "jobs"
  /\ jobsData' = jobs
  /\ pc' = "b_apps" /\ step' = "enter"
  /\ req' = NoReq
  /\ UNCHANGED <<cfgVars, loopVars, aggVars, outVars, enrVars, csrfToken,
                 localToken, tokAttempt, switchedOrg, allApplications, cursor,
                 hasMore, orgName, histVars>>

\* catch (error) { throw error }
BrowserJobsFail(o) ==
  /\ pc = "b_jobs" /\ step = "qry" /\ req.kind = "jobs"
  /\ o \in QueryFailures
  /\ req' = NoReq
  /\ Note401(o) /\ UNCHANGED <<lastThrow, switchCalls, runs, script>>
  /\ BrowserThrows
  /\ UNCHANGED <<csrfToken, lastSwitch, switchFailed>>

\* one page of the while (hasMore) loop, browser-client.ts 437-456
BrowserAppsOk(next, more) ==
  /\ pc = "b_apps" /\ step = "qry" /\ req.kind = "apps"
  /\ next \in Cursors /\ more \in BOOLEAN
  /\ more => Len(pages) + 1 < MaxPages
  /\ LET results == PageContent(Len(pages) + 1) IN
       /\ allApplications' = allApplications \o results
       /\ pages' = Append(pages, [results |-> results, nextCursor |-> next,
                                  more |-> more])
  /\ cursor' = next
  /\ hasMore' = more
  /\ req' = NoReq
  /\ IF more
     THEN pc' = "b_apps" /\ step' = "enter" /\ UNCHANGED returned
     ELSE returned' = [returned EXCEPT ![CurOrgId] =
                         <<BrowserNormalize(jobsData, allApplications', CurOrgId)>>]
          /\ pc' = "b_done" /\ step' = "returned"
  /\ UNCHANGED <<cfgVars, loopVars, aggVars, outVars, enrVars, csrfToken,
                 localToken, tokAttempt, switchedOrg, jobsData, orgName,
                 lastSwitch, verified, sentCursors, switchFailed, baseFailed,
                 seen401, lastThrow, switchCalls, runs, script>>

\* catch: the error is logged and the pages pushed so far are normalized
BrowserAppsFail(o) ==
  /\ pc = "b_apps" /\ step = "qry" /\ req.kind = "apps"
  /\ o \in QueryFailures
  /\ req' = NoReq
  /\ Note401(o) /\ UNCHANGED <<lastThrow, switchCalls, runs, script>>
  /\ BrowserReturns
  /\ baseFailed' = baseFailed \cup {CurOrgId}
  /\ UNCHANGED <<cfgVars, loopVars, aggVars, outVars, enrVars, csrfToken,
                 localToken, tokAttempt, fetchVars, lastSwitch, verified, pages,
                 sentCursors, switchFailed>>

\* ======================================= an interrupt from outside
\* extractCommand and the client register no handler for SIGINT (the only
\* process.on('SIGINT') of the repository is inside bootstrapSession, which
\* the extract command does not call): the signal ends the process where it
\* stands, process.exitCode is not assigned, and nothing of the command runs
\* after it
Interrupt ==
  /\ client = "api"
  /\ pc \notin {"done", "crashed", "killed"}
  /\ pc' = "killed"
  /\ UNCHANGED <<step, cfgVars, loopVars, aggVars, outVars, enrVars, csrfToken,
                 localToken, tokAttempt, req, fetchVars, histVars>>

\* ========================= the normalisers called on their own
\* (variant used to test C29) the candidates list outlives the call: a
\* second call returns the records of the first as well
NormalizeApiKeepsPrevious ==
  /\ pc = "n_api"
  /\ UNCHANGED script
  /\ runs' = [runs EXCEPT !.api =
                Append(@, LET result == normalizePipelineData(jobsData, allApplications,
                                                              1, NoName)
                          IN IF runs.api = <<>> THEN result
                             ELSE [result EXCEPT !.candidates =
                                     runs.api[1].candidates \o @])]
  /\ pc' = "n_browser"
  /\ UNCHANGED <<step, cfgVars, loopVars, aggVars, outVars, enrVars, csrfToken,
                 localToken, tokAttempt, req, fetchVars, lastSwitch, verified,
                 pages, sentCursors, returned, switchFailed, baseFailed, seen401,
                 lastThrow, switchCalls>>

\* normalizePipelineData(jobsData.jobsPipelines, allApplications, orgId, orgName)
\* of the API client, with the responses of one tenant
NormalizeApi ==
  /\ pc = "n_api"
  /\ UNCHANGED script
  /\ runs' = [runs EXCEPT !.api =
                Append(@, normalizePipelineData(jobsData, allApplications, 1, NoName))]
  /\ pc' = "n_browser"
  /\ UNCHANGED <<step, cfgVars, loopVars, aggVars, outVars, enrVars, csrfToken,
                 localToken, tokAttempt, req, fetchVars, lastSwitch, verified,
                 pages, sentCursors, returned, switchFailed, baseFailed, seen401,
                 lastThrow, switchCalls>>

\* this.normalizePipelineData(jobsData.jobsPipelines, allApplications, orgId)
\* of the BrowserClient, with the same responses
NormalizeBrowser ==
  /\ pc = "n_browser"
  /\ UNCHANGED script
  /\ runs' = [runs EXCEPT !.browser =
                Append(@, BrowserNormalize(jobsData, allApplications, 1))]
  /\ pc' = IF Len(runs.browser) = 0 THEN "n_wait" ELSE "n_done"
  /\ UNCHANGED <<step, cfgVars, loopVars, aggVars, outVars, enrVars, csrfToken,
                 localToken, tokAttempt, req, fetchVars, lastSwitch, verified,
                 pages, sentCursors, returned, switchFailed, baseFailed, seen401,
                 lastThrow, switchCalls>>

\* the second run starts later, against the same responses
TimePasses ==
  /\ pc = "n_wait"
  /\ now' \in {now, now + 1}
  /\ pc' = "n_api"
  /\ UNCHANGED <<step, client, retriesOpt, detailed, maxConcurrent, fetchAll,
                 session, identities, orgFilter, maxOrgs, orgsToProcess, orgInfos,
                 loopVars, aggVars, outVars, enrVars, csrfToken, localToken,
                 tokAttempt, req, fetchVars, histVars>>

Next ==
  \/ NormalizeApi \/ NormalizeBrowser \/ TimePasses
  \/ LoadSession \/ DiscoverTokenOk
  \/ \E o \in TokenFailures : DiscoverTokenFail(o)
  \/ \E o \in {"ok"} \cup IdentityFailures : DiscoverAnswer(o)
  \/ LoopExit \/ SkipNoUserId \/ StartOrg \/ StartAttempt \/ NextOrg
  \/ SendTokenRequest \/ TokenRetry
  \/ \E o \in {"ok"} \cup TokenFailures : TokenAnswer(o)
  \/ SwitchPreTokenOk \/ \E o \in TokenFailures : SwitchPreTokenFail(o)
  \/ SendSwitchRequest
  \/ SwitchRequestOk
  \/ \E o \in SwitchFailures : SwitchRequestFail(o)
  \/ SwitchPostTokenOk \/ \E o \in TokenFailures : SwitchPostTokenFail(o)
  \/ GraphqlEnter \/ GraphqlTokenOk \/ GraphqlSend
  \/ \E r \in OrgIds : VerifyOk(r)
  \/ \E o \in QueryFailures : VerifyFail(o)
  \/ \E jobs \in JobsResponses : JobsOk(jobs)
  \/ \E o \in QueryFailures : JobsFail(o)
  \/ \E next \in Cursors, more \in BOOLEAN, empty \in BOOLEAN : AppsOk(next, more, empty)
  \/ \E o \in QueryFailures : AppsFail(o)
  \/ \E r \in OrgIds : NameOk(r)
  \/ \E o \in QueryFailures : NameFail(o)
  \/ SummaryEmpty \/ EnrichStart \/ EnrichGroup \/ BatchStart
  \/ \E k \in 1..MaxConcurrent : DetailSend(k)
  \/ \E k \in 1..MaxConcurrent : DetailSkip(k)
  \/ \E k \in 1..MaxConcurrent : DetailOk(k)
  \/ \E k \in 1..MaxConcurrent, o \in QueryFailures \cup {"noapplication"} : DetailFail(k, o)
  \/ BatchJoin \/ GroupDone \/ EnrichReturn \/ Export
  \/ BrowserStart \/ \E found \in BOOLEAN : BrowserGetCsrfToken(found)
  \/ BrowserTokenOk \/ \E o \in TokenFailures : BrowserTokenFail(o)
  \/ BrowserSendSwitch \/ BrowserSwitchOk
  \/ \E o \in SwitchFailures : BrowserSwitchFail(o)
  \/ \E ok \in BOOLEAN : BrowserGoto(ok)
  \/ BrowserSwitched \/ BrowserSend
  \/ \E jobs \in JobsResponses : BrowserJobsOk(jobs)
  \/ \E o \in QueryFailures : BrowserJobsFail(o)
  \/ \E next \in Cursors, more \in BOOLEAN : BrowserAppsOk(next, more)
  \/ \E o \in QueryFailures : BrowserAppsFail(o)

Spec == Init /\ [][Next]_vars

\* Every request is answered (fetch resolves or rejects) and the event loop
\* runs every continuation that is ready: some step is always taken while
\* one is possible.
LiveSpec == Spec /\ WF_vars(Next)

\* ================================================ run_ashby_extract.sh
\* the variables of the extraction command, which the script leaves alone
commandVars == <<pc, step, cfgVars, loopVars, aggVars, outVars, enrVars, csrfToken,
                 localToken, tokAttempt, req, fetchVars, lastSwitch, verified,
                 pages, sentCursors, returned, switchFailed, baseFailed, seen401,
                 lastThrow, switchCalls, runs>>

\* exit 1 after a dialog or a notification
ScriptExits(s, report) == [s EXCEPT !.pc = "exited", !.report = report, !.status = 1]

\* if ! check_session: the session file is missing or older than 7 days
CheckSession ==
  /\ script.pc = "check"
  /\ script' = [script EXCEPT !.pc = IF script.file = "recent" THEN "loop_head"
                                     ELSE "first_refresh"]
  /\ UNCHANGED commandVars

\* session_token=$(refresh_cookies) before the loop: Cancel makes osascript
\* fail, an empty field gives an empty token; otherwise update_session_token
\* writes the session file
FirstRefresh(answer) ==
  /\ script.pc = "first_refresh"
  /\ answer \in DialogAnswers
  /\ script' = IF answer = "token"
               THEN [script EXCEPT !.pc = "loop_head", !.file = "recent"]
               ELSE ScriptExits(script, "cancelled")
  /\ UNCHANGED commandVars

\* while [ $RETRY_COUNT -lt $MAX_RETRIES ] && [ "$EXTRACTION_SUCCESS" = false ]
LoopHead ==
  /\ script.pc = "loop_head"
  /\ script' = [script EXCEPT !.pc =
                  IF script.RETRY_COUNT < MAX_RETRIES /\ ~script.EXTRACTION_SUCCESS
                  THEN "extract" ELSE "report"]
  /\ UNCHANGED commandVars

\* npm run start -- extract --detailed 2>&1 | tee /tmp/ashby_extract.log;
\* EXTRACTION_EXIT_CODE=${PIPESTATUS[0]}
RunExtraction(run) ==
  /\ script.pc = "extract"
  /\ run \in ExtractionRuns
  /\ script' = [script EXCEPT !.pc = "grep", !.log = run,
                              !.extractions = Append(@, run)]
  /\ UNCHANGED commandVars

\* if grep -q "401 Unauthorized\|..." log: refresh when a retry is left, else
\* exit 1; elif [ $EXTRACTION_EXIT_CODE -eq 0 ]: EXTRACTION_SUCCESS=true;
\* else exit 1
CheckLog ==
  /\ script.pc = "grep"
  /\ script' = IF script.log.expired
               THEN IF script.RETRY_COUNT < MAX_RETRIES - 1
                    THEN [script EXCEPT !.pc = "refresh"]
                    ELSE ScriptExits(script, "failed after retries")
               ELSE IF script.log.exit = 0
               THEN [script EXCEPT !.pc = "loop_head", !.EXTRACTION_SUCCESS = TRUE]
               ELSE ScriptExits(script, "failed")
  /\ UNCHANGED commandVars

\* session_token=$(refresh_cookies) inside the loop: with a token the file
\* is updated and RETRY_COUNT=$((RETRY_COUNT + 1)); otherwise exit 1
RefreshInLoop(answer) ==
  /\ script.pc = "refresh"
  /\ answer \in DialogAnswers
  /\ script' = IF answer = "token"
               THEN [script EXCEPT !.pc = "loop_head", !.file = "recent",
                                   !.RETRY_COUNT = @ + 1,
                                   !.refreshes = Append(@, answer)]
               ELSE ScriptExits([script EXCEPT !.refreshes = Append(@, answer)],
                                "aborted")
  /\ UNCHANGED commandVars

\* if [ "$EXTRACTION_SUCCESS" = true ]: candidate_count is read from the last
\* 20 lines of the log; "Success!" when it is not empty, else "no data
\* found"; the script ends with status 0
Report ==
  /\ script.pc = "report"
  /\ script' = [script EXCEPT !.pc = "exited",
                  !.report = IF ~script.EXTRACTION_SUCCESS THEN "none"
                             ELSE IF script.log.counted THEN "success"
                             ELSE "no data"]
  /\ UNCHANGED commandVars

WrapperNext ==
  \/ CheckSession
  \/ \E answer \in DialogAnswers : FirstRefresh(answer)
  \/ LoopHead
  \/ \E run \in ExtractionRuns : RunExtraction(run)
  \/ CheckLog
  \/ \E answer \in DialogAnswers : RefreshInLoop(answer)
  \/ Report

\* the script is started with any state of the session file; the command it
\* runs is `extract` without --org and --max-orgs, over the two tenants
WrapperInit ==
  /\ InitWith(1..MaxConcurrent)
  /\ client = "start" /\ session = "ok"
  /\ identities = [k \in 1..NumOrgs |-> Identity(k, OrgNameOf(k))]
  /\ orgFilter = NoFilter /\ maxOrgs = 0
  /\ \E file \in SessionFiles : script = ScriptStart(file)
WrapperSpec == WrapperInit /\ [][WrapperNext]_vars

\* the same program, enrichment being called with every number of concurrent
\* fetches the command line can give it: --detailed-concurrent <n> is read
\* with parseInt and passed on as `n || 5`
DefaultConcurrent == 5
DetailedConcurrentOptions == -1..MaxConcurrent
CliConcurrency ==
  {IF n = 0 THEN DefaultConcurrent ELSE n : n \in DetailedConcurrentOptions}
CliInit == InitWith(CliConcurrency) /\ script = NotRun
CliLiveSpec == CliInit /\ [][Next]_vars /\ WF_vars(Next)

\* the same program in an environment that may send it an interrupt
NextInterruptible == Next \/ Interrupt
InterruptSpec == Init /\ [][NextInterruptible]_vars

\* ====================================================== properties
InFailedOrgs(t) == \E k \in 1..Len(failedOrgs) : failedOrgs[k].org = t

\* the detail fetches in flight
SentTasks == {k \in 1..Len(batch) : batch[k].st = "sent"}

\* While a batch runs the session holds a token, so no task of the batch
\* takes the token-fetch branch of graphqlQuery.
BatchHasToken == pc = "batch" => csrfToken # NoToken

\* C1: when the verification query after a switch to T reports another
\* tenant, or fails, the switch ends as failed: T is not treated as bound, so
\* the run is at no base query for T and at no detail-fetch batch for T.
C1_FailedVerificationNeverBinds ==
  verified \in {"mismatch", "failed"} =>
    /\ pc \notin {"jobs", "apps", "name", "batch_head", "batch"}
    /\ ~switchedOrg

\* C2: in a run of extractCommand (extraction loop and enrichment) every job
\* listing, application listing, tenant-name query and detail fetch in flight
\* on behalf of tenant T finds that the session's most recent switch request
\* targeted T and was answered successfully.
C2_QueriesOnlyAfterOwnSwitch ==
  client = "api" =>
    /\ req.kind \in {"jobs", "apps", "name"} =>
         lastSwitch = [target |-> req.org, status |-> "ok"]
    /\ \A k \in SentTasks :
         lastSwitch = [target |-> batch[k].cand.orgId, status |-> "ok"]

\* C2 witness: the application listing of the second tenant is in flight
\* after the first tenant was processed with a switch of its own.
C2_Witness ==
  /\ client = "api"
  /\ req.kind = "apps" /\ req.org = 2
  /\ returned[1] # <<>> /\ returned[1][1].candidates # <<>>

\* C3: every query in flight (verification query, base queries, detail
\* fetches), of the API client and of the BrowserClient, carries a token
\* obtained after the session's latest switch request: the refresh that
\* follows a switch precedes every query against the tenant.
C3_QueriesCarryPostSwitchToken ==
  /\ req.kind \in GqlSites => req.token = Fresh
  /\ \A k \in SentTasks : batch[k].token = Fresh

\* C3 witness: the verification query of the second tenant's switch is in
\* flight.
C3_Witness ==
  /\ req.kind = "verify" /\ req.token = Fresh
  /\ lastSwitch = [target |-> 2, status |-> "ok"]

\* C4: at the end of the tenant loop every tenant whose switch failed (the
\* switch request was rejected or the refresh after it failed) is in the
\* list of failed tenants.
C4_SwitchFailuresRecorded ==
  pc = "summary" => \A t \in switchFailed : InFailedOrgs(t)

\* the concatenation, in tenant order, of field f of the results returned
\* by fetchPipelineForOrg
RECURSIVE CatReturned(_, _)
CatReturned(f, k) ==
  IF k > NumOrgs THEN <<>>
  ELSE (IF returned[k] = <<>> THEN <<>> ELSE returned[k][1][f]) \o CatReturned(f, k + 1)

\* a candidate as normalizePipelineData produced it, before enrichment
Unenriched(cs) == [k \in 1..Len(cs) |-> [cs[k] EXCEPT !.enriched = FALSE]]

\* C5: throughout a run of extractCommand the aggregate holds exactly the records returned for
\* the tenants that succeeded, in tenant processing order, whatever happened
\* to the other tenants (after enrichment: the same candidates, enriched or
\* not); what is exported is that aggregate, and the run ends without an
\* export only when no candidate was returned for any tenant.
C5_AggregateKeepsEverySuccess ==
  client = "api" =>
    /\ Unenriched(allCandidates) = CatReturned("candidates", 1)
    /\ (mode = "extract" \/ pc \notin {"export", "done"}) =>
         allCandidates = CatReturned("candidates", 1)
    /\ allJobs = CatReturned("jobs", 1)
    /\ allCompanies = CatReturned("companies", 1)
    /\ exported # <<>> =>
         exported[1] = [companies |-> CatReturned("companies", 1),
                        jobs |-> CatReturned("jobs", 1),
                        candidates |-> allCandidates]
    /\ pc = "done" => (exported = <<>> <=> CatReturned("candidates", 1) = <<>>)

\* C5 witness: the first tenant failed, the second returned records and the
\* run exported them.
C5_Witness ==
  /\ client = "api" /\ pc = "done" /\ exported # <<>>
  /\ InFailedOrgs(1) /\ returned[1] = <<>>
  /\ returned[2] # <<>> /\ returned[2][1].candidates # <<>>
  /\ exported[1].candidates = returned[2][1].candidates

\* C6: once an authorization failure (401) was answered while a tenant was
\* processed, no request is issued for any later tenant of the list.
C6_AuthFailureAbortsRun ==
  (mode = "extract" /\ seen401 = "earlier") => req = NoReq

\* C7: at the end of the tenant loop every tenant whose job listing or
\* application listing ultimately failed is in the list of failed tenants.
C7_BaseQueryFailuresRecorded ==
  pc = "summary" => \A t \in baseFailed : InFailedOrgs(t)

\* C8: in the pagination loop (of either client) the k-th request carries the cursor returned
\* by page k-1 (null for the first), the applications collected are the
\* concatenation of the pages in arrival order, and when the last page
\* reports no more data the number of requests equals the number of pages.
C8_PaginationFollowsCursors ==
  (pc \in {"apps", "b_apps"} \/ (pc = "name" /\ step = "enter")
     \/ (pc = "b_done" /\ step = "returned")) =>
    /\ allApplications = Flatten([k \in 1..Len(pages) |-> pages[k].results])
    /\ \A k \in 1..Len(sentCursors) :
         sentCursors[k] = IF k = 1 THEN NullCursor ELSE pages[k - 1].nextCursor
    /\ Len(sentCursors) \in {Len(pages), Len(pages) + 1}
    /\ (pc \in {"name", "b_done"} /\ ~hasMore) =>
         /\ Len(sentCursors) = Len(pages)
         /\ \A k \in 1..Len(pages) : pages[k].more <=> k < Len(pages)

\* C8 witness: a listing of two pages has ended, the first page having
\* returned a non-null cursor.
C8_Witness ==
  /\ pc = "name" /\ step = "enter" /\ ~hasMore
  /\ Len(pages) = 2 /\ pages[1].nextCursor # NullCursor
  /\ Len(allApplications) = 2

\* C9: when a page reports more data with a cursor equal to the cursor just
\* sent, the loop stops: no further request follows that page.
C9_StalledCursorStopsLoop ==
  \A k \in 1..Len(pages) :
    (k <= Len(sentCursors) /\ pages[k].more /\ pages[k].nextCursor = sentCursors[k])
      => Len(sentCursors) = k

\* C10: from a successful switch answer until the refresh completes the
\* session holds no token, and after any answered switch request the session
\* never holds a token issued before that request.
C10_SwitchInvalidatesToken ==
  /\ (pc = "switch" /\ step = "post_tok") => csrfToken = NoToken
  /\ lastSwitch.status \in {"ok", "failed"} => csrfToken # Stale

\* a token fetch (fetchCsrfToken, BrowserClient.getCsrfToken) is running
FetchingToken == InTokenFetch \/ (pc \in BrowserSites /\ step = "tok")

\* C11: the step that handles a 401 answer of the token endpoint ends the
\* token fetch: the call issues no further token request, whatever number of
\* attempts remains.
C11_TokenFetchStopsOn401 ==
  [][(req.kind = "token" /\ req.answer = "http401") => ~FetchingToken']_vars

\* C11 witness: the token endpoint answered 401 to the second request of a
\* fetchCsrfToken call, one attempt remaining.
C11_Witness ==
  /\ InTokenFetch /\ req.kind = "token" /\ req.answer = "http401"
  /\ tokAttempt = 1 /\ tokAttempt < TokenRetries

\* C12: in fetchCsrfToken every failed token request other than a 401 (a
\* non-OK status or a transport-level error) is followed by another attempt
\* while attempts remain, and the call never makes more than retries+1
\* requests.
C12_TokenFetchRetriesOtherFailures ==
  [][(client = "api" /\ req.kind = "token"
      /\ req.answer \in {"httperr", "reject"} /\ tokAttempt < TokenRetries)
       => (InTokenFetch' /\ tokAttempt' = tokAttempt + 1 /\ tokAttempt' <= TokenRetries)]_vars

\* a query is being executed with a cached token and no forced refresh
QueryWithCachedToken ==
  /\ csrfToken # NoToken
  /\ \/ pc \in GqlSites /\ step = "qry"
     \/ pc \in GqlSites /\ step = "enter" /\ ~(pc = "jobs" /\ switchedOrg)
     \/ pc \in {"b_jobs", "b_apps"} /\ step \in {"enter", "have", "qry"}
     \/ pc = "batch"

\* C13: while a query is executed with a cached token and no forced refresh
\* no token request is issued and the cached token stays as it is; no token
\* fetch occurs at the application listing, so none between its pages.
C13_CachedTokenIsReused ==
  /\ [][QueryWithCachedToken => (csrfToken' = csrfToken /\ req'.kind # "token")]_vars
  /\ [](pc \in {"apps", "b_apps"} => (csrfToken # NoToken /\ req.kind # "token"
                                      /\ step # "tok"))

\* C13 witness: the request for the second page of a listing is in flight
\* with the token the session holds.
C13_Witness ==
  /\ pc = "apps" /\ step = "qry" /\ req.kind = "apps"
  /\ Len(pages) = 1 /\ req.token = csrfToken /\ csrfToken # NoToken

\* outcomes after which another attempt cannot succeed: an authorization
\* failure, or a response that is not JSON
NonRetryable == {"http401", "badjson"}

\* C14: once an attempt for a tenant threw on an authorization failure or
\* on an unparseable response, the attempt loop starts no further attempt
\* for that tenant: control stays at the loop's head until the next tenant.
C14_NonRetryableOutcomeEndsTenant ==
  (client = "api" /\ lastThrow \in NonRetryable) => pc = "attempt_head"

\* the attempts made for the current tenant, at the head of the attempt loop
AttemptsMade == attempt - 1

\* C15: with the retries option set to N, a tenant whose attempts throw on
\* transient failures gets another attempt until N+1 attempts were made, is
\* recorded as failed once they were, and never gets more than N+1.
C15_RetriesOptionGivesNPlusOneAttempts ==
  (client = "api" /\ pc = "attempt_head" /\ ~success
     /\ lastThrow \in QueryFailures \ NonRetryable)
    => /\ AttemptsMade <= retriesOpt + 1
       /\ AttemptsMade < retriesOpt + 1 => attempt <= maxRetries
       /\ AttemptsMade = retriesOpt + 1 => InFailedOrgs(CurOrgId)

\* C16: work of different tenants never overlaps. While a switch request is
\* in flight no detail fetch is, and no batch is open; a switch request is
\* issued only when no request at all is in flight, in the tenant loop and
\* in the enrichment loop alike.
C16_TenantsProcessedSequentially ==
  /\ [](req.kind = "switch" => (SentTasks = {} /\ batch = <<>>))
  /\ [][(req'.kind = "switch" /\ req.kind # "switch")
          => (req = NoReq /\ batch = <<>>)]_vars

\* C16 witness: the enrichment loop has fetched details for its first
\* group and the switch request for its second group is in flight.
C16_Witness ==
  /\ mode = "enrich" /\ g = 2 /\ req.kind = "switch"
  /\ enrichedCandidates # <<>>
  /\ \E k \in 1..Len(enrichedCandidates) : enrichedCandidates[k].enriched

\* C17: during enrichment with maxConcurrent = k, of either client, at most
\* k detail fetches are in flight at any instant, and no batch holds more
\* than k records.
C17_AtMostMaxConcurrentInFlight ==
  /\ Cardinality(SentTasks) <= maxConcurrent
  /\ Len(batch) <= maxConcurrent

\* C17 witness: a group of three records is enriched with maxConcurrent = 2
\* and two detail fetches are in flight together.
C17_Witness ==
  /\ pc = "batch" /\ maxConcurrent = 2
  /\ Len(groups[g].cands) = 3
  /\ Cardinality(SentTasks) = 2

\* the loop of enrichCandidatesWithDetails is over: it returns enrichedCandidates
EnrichLoopOver == mode = "enrich" /\ pc = "enrich_head" /\ g > Len(groups)

\* enrichCandidatesWithDetails has returned to its caller
EnrichReturned == pc \in {"e_done", "export", "done"}

\* every record of `input` occurs exactly once in `output`, enriched or as
\* it was
EachExactlyOnce(input, output) ==
  /\ Len(output) = Len(input)
  /\ \A k \in 1..Len(input) :
       Cardinality({j \in 1..Len(output) : Unenriched(output)[j] = input[k]}) = 1

\* C18: whatever switches and detail fetches fail, enrichment returns, and
\* what it returns holds every input record exactly once, enriched or as
\* the unchanged original, so as many records as the input.
C18_EnrichmentReturnsEveryRecord ==
  /\ [](EnrichLoopOver => EachExactlyOnce(allCandidates, enrichedCandidates))
  /\ (mode = "enrich") ~> EnrichReturned

\* C18 witness: the call returns three records of two tenants, one tenant
\* without userId or with a failed switch (its records unchanged), and
\* another record left unchanged or enriched by its detail fetch.
C18_Witness ==
  /\ EnrichLoopOver /\ Len(groups) = 2 /\ Len(enrichedCandidates) = MaxInput
  /\ \E j \in 1..Len(enrichedCandidates) : enrichedCandidates[j].enriched
  /\ \E j \in 1..Len(enrichedCandidates) :
       /\ ~enrichedCandidates[j].enriched
       /\ (fetchAll \/ enrichedCandidates[j].needsScheduling)
  /\ enrichedCandidates # allCandidates

\* C19: within one enrichment call switchOrgContext is called at most once
\* for each tenant of the input, however many records the tenant has and
\* wherever they stand in the input.
C19_OneSwitchPerTenantInEnrichment ==
  \A t \in OrgIds : switchCalls[t] <= 1

\* C19 witness: the input interleaves two tenants (records of tenant A,
\* B, A); the loop is over and each tenant was switched to once.
C19_Witness ==
  /\ EnrichLoopOver /\ Len(allCandidates) = 3
  /\ allCandidates[1].orgId # allCandidates[2].orgId
  /\ allCandidates[3].orgId = allCandidates[1].orgId
  /\ \A t \in OrgIds : switchCalls[t] = 1

\* C20: with fetchAll false no detail fetch is issued for a record whose
\* needsScheduling flag is false, and such a record is returned as it was;
\* the fetches in flight are all for flagged records.
C20_UnflaggedRecordsPassThrough ==
  ~fetchAll =>
    /\ \A k \in 1..Len(batch) :
         ~batch[k].cand.needsScheduling
           => (batch[k].st \in {"start", "done"} /\ ~batch[k].cand.enriched)
    /\ \A k \in SentTasks : batch[k].cand.needsScheduling
    /\ \A j \in 1..Len(enrichedCandidates) :
         ~enrichedCandidates[j].needsScheduling
           => (~enrichedCandidates[j].enriched
               /\ \E k \in 1..Len(allCandidates) : allCandidates[k] = enrichedCandidates[j])

\* C20 witness: a call with fetchAll false is over; it returns an unflagged
\* record and a flagged record that its detail fetch enriched.
C20_Witness ==
  /\ ~fetchAll /\ EnrichLoopOver
  /\ \E j \in 1..Len(enrichedCandidates) : ~enrichedCandidates[j].needsScheduling
  /\ \E j \in 1..Len(enrichedCandidates) :
       enrichedCandidates[j].needsScheduling /\ enrichedCandidates[j].enriched

\* C21: when the detail fetch of one record fails, the record stays as it
\* was, the other tasks of the batch go on untouched and the call goes on
\* (it stays in its batch); every task holds its input record, changed by
\* nothing but a successful fetch.
C21_FailedDetailFetchKeepsRecord ==
  /\ [](pc = "batch" =>
          \A k \in 1..Len(batch) :
            /\ [batch[k].cand EXCEPT !.enriched = FALSE] = groups[g].cands[off + k]
            /\ batch[k].st # "done" => ~batch[k].cand.enriched)
  /\ [][\A k \in 1..Len(batch) :
          (batch[k].st = "sent" /\ Len(batch') = Len(batch)
             /\ batch'[k].st = "done" /\ ~batch'[k].cand.enriched)
            => /\ batch'[k].cand = batch[k].cand
               /\ pc' = "batch"
               /\ enrichedCandidates' = enrichedCandidates
               /\ \A j \in 1..Len(batch) : j # k => batch'[j] = batch[j]]_vars

\* C21 witness: with fetchAll, the first record's detail fetch failed (it
\* is returned unenriched), a record of the same batch and one of a later
\* batch were enriched, and the loop is over.
C21_Witness ==
  /\ client = "b_enrich" /\ fetchAll /\ maxConcurrent = 2 /\ EnrichLoopOver
  /\ Len(enrichedCandidates) = 3
  /\ ~enrichedCandidates[1].enriched
  /\ enrichedCandidates[2].enriched /\ enrichedCandidates[3].enriched

\* discovery is over: the identities request was answered
Discovered == client = "start" /\ csrfToken # NoToken /\ pc \notin {"load", "discover"}

\* C22: when the remote lists no identity and the token fetch of discovery
\* succeeded, discovery still yields a tenant descriptor (for the tenant
\* the session is bound to) and the run has a tenant to process.
C22_EmptyListYieldsSyntheticTenant ==
  (Discovered /\ identities = <<>>)
    => (Len(orgInfos) = 1 /\ Len(orgsToProcess) >= 1 /\ pc # "done")

\* the remote lists a tenant without display name
SomeTenantUnnamed == \E k \in 1..Len(identities) : ~identities[k].name.defined

\* C23: a tenant descriptor without display name causes no error at any
\* step of the run, the name filter included: with a loadable session the
\* command never ends on an uncaught exception, and without a filter the
\* unnamed tenant is among the tenants processed.
C23_MissingNameIsNoError ==
  (client = "start" /\ session = "ok" /\ SomeTenantUnnamed)
    => /\ pc # "crashed"
       /\ (pc = "loop_head" /\ ~orgFilter.defined /\ maxOrgs = 0)
            => \E k \in 1..Len(orgsToProcess) : ~orgsToProcess[k].name.defined

\* the name has the filter's characters at some position, letter case aside
NameMatches(name, f) ==
  \E at \in 0..(Len(name.text) - Len(f.text)) :
    \A j \in 1..Len(f.text) : ToLower(name.text[at + j]) = ToLower(f.text[j])

\* positions, in the discovered list, of the tenants the run is to process:
\* those that match the filter (all, without filter), and of these the first
\* maxOrgs (all, without cap)
MatchingPositions ==
  {k \in 1..Len(orgInfos) : ~orgFilter.defined \/ NameMatches(orgInfos[k].name, orgFilter)}
ChosenPositions ==
  {k \in MatchingPositions :
     maxOrgs = 0 \/ Cardinality({j \in MatchingPositions : j < k}) < maxOrgs}

\* identifiers of the tenants to process
IdsToProcess == {orgsToProcess[k].id : k \in 1..Len(orgsToProcess)}

\* C24: the tenants processed are the discovered tenants that match the
\* filter, cut to the first maxOrgs, in discovery order; the list does not
\* change once the first tenant is being processed, and every switch, token
\* request and query of the tenant loop is for a tenant of the list.
C24_ProcessedAreFilteredAndCapped ==
  /\ []((client = "start" /\ pc # "crashed") =>
          /\ Len(orgsToProcess) = Cardinality(ChosenPositions)
          /\ \A k \in ChosenPositions :
               orgsToProcess[Cardinality({j \in ChosenPositions : j <= k})] = orgInfos[k]
          /\ (req.kind \notin {"none", "identities"} /\ pc # "discover")
               => req.org \in IdsToProcess
          /\ lastSwitch.target \in IdsToProcess \cup {NoOrg})
  /\ [][(client = "start" /\ pc \notin {"load", "discover"})
          => orgsToProcess' = orgsToProcess]_vars

\* C24 witness: two tenants were discovered, both match the filter "C" by
\* case folding, the cap is 1: the run processed the first one only and
\* exported its records.
C24_Witness ==
  /\ client = "start" /\ orgFilter = Str(<<"C">>) /\ maxOrgs = 1
  /\ Len(orgInfos) = 2 /\ Len(orgsToProcess) = 1
  /\ pc = "done" /\ exported # <<>> /\ lastSwitch.target = orgInfos[1].id

\* C25: equal remote identifiers never merge or confuse the records of
\* different tenants: the aggregate holds every tenant's candidates and
\* jobs (aggregated as many as returned), each candidate attributed to the
\* tenant it was returned for, and each exported row carries the job title
\* of the candidate's own tenant.
C25_EqualIdsDoNotCrossTenants ==
  (client \in {"api", "start"} /\ pc = "done" /\ exported # <<>>) =>
    /\ Len(exported[1].jobs) = Len(CatReturned("jobs", 1))
    /\ Len(exported[1].candidates) = Len(CatReturned("candidates", 1))
    /\ \A k \in 1..Len(exportCSV(exported[1])) :
         LET row == exportCSV(exported[1])[k]
         IN row.job_title = JobTitle(row.org, row.job_id)

\* the tenant loop of extractCommand ran and the command is over
RunOver ==
  /\ client \in {"api", "start"} /\ pc = "done"
  /\ orgsToProcess # <<>> /\ i > Len(orgsToProcess)

\* fetchPipelineForOrg returned for no tenant / returned for some tenant
\* the jobs it listed (so its switch went through) without any failure of
\* its queries
NoTenantSucceeded == \A k \in OrgIds : returned[k] = <<>>
SomeTenantSucceeded ==
  \E k \in OrgIds : /\ returned[k] # <<>>
                     /\ returned[k][1].jobs # <<>>
                     /\ k \notin (switchFailed \cup baseFailed)

\* C26: a run in which no tenant succeeded ends as a failure (exit status
\* 1), and a run in which a tenant succeeded does not, even when the
\* tenants that succeeded returned no record at all.
C26_CompleteFailureIsDistinct ==
  RunOver => /\ NoTenantSucceeded => exitCode = 1
             /\ SomeTenantSucceeded => exitCode = 0

\* some request was sent to the remote, now or earlier in the run
RemoteContacted ==
  \/ req # NoReq
  \/ csrfToken # NoToken
  \/ lastSwitch.status # "none"
  \/ pages # <<>> \/ sentCursors # <<>>
  \/ seen401 # "no"
  \/ orgInfos # <<>>

\* C27: when no session can be loaded, or the session loaded lacks both
\* authentication cookies, the run does not start: it issues no request to
\* the remote and ends with a failure status.
C27_NoSessionNoRun ==
  (client = "start" /\ session # "ok")
    => /\ ~RemoteContacted
       /\ pc \in {"load", "done", "crashed"}
       /\ pc # "load" => (exitCode = 1 /\ exported = <<>>)

\* C27 witness: the session loaded has neither authentication cookie and
\* the command is over, with exit status 1.
C27_Witness ==
  /\ client = "start" /\ session = "noauth" /\ pc = "done" /\ exitCode = 1


\* ---------------------------------------------------------------- C28
\* the stage type, as written in the remote answer, contains this word when
\* the case of letters is ignored
RECURSIVE SameLetters(_, _)
SameLetters(cs, word) ==
  IF word = <<>> THEN TRUE
  ELSE /\ cs # <<>>
       /\ \/ Head(cs) = Head(word)
          \/ \E k \in 1..Len(UpperCase) :
               Head(cs) = UpperCase[k] /\ Head(word) = LowerCase[k]
       /\ SameLetters(Tail(cs), Tail(word))
RECURSIVE ContainsWord(_, _)
ContainsWord(cs, word) ==
  IF Len(cs) < Len(word) THEN FALSE
  ELSE SameLetters(cs, word) \/ ContainsWord(Tail(cs), word)
Keywords ==
  {<<"i", "n", "t", "e", "r", "v", "i", "e", "w">>,
   <<"o", "n", "s", "i", "t", "e">>,
   <<"t", "e", "c", "h", "n", "i", "c", "a", "l">>,
   <<"s", "c", "r", "e", "e", "n", "i", "n", "g">>,
   <<"c", "a", "l", "l">>}
FlagExpected(stageType, days) ==
  /\ stageType.defined
  /\ \E word \in Keywords : ContainsWord(stageType.text, word)
  /\ days >= 7
\* the record each normaliser made of the sample application
RunRecords ==
  {runs.api[k].candidates[1] : k \in 1..Len(runs.api)}
    \cup {runs.browser[k].candidates[1] : k \in 1..Len(runs.browser)}

\* C28: the scheduling-needed flag of a record is true exactly when its stage
\* type is present, contains one of the keywords interview, onsite,
\* technical, screening, call (letter case ignored) and its days-in-stage is
\* at least 7; a stage type "offer" is never flagged; and records of the two
\* clients with the same stage type and days-in-stage carry the same flag
C28_FlagIsKeywordAndSevenDays ==
  /\ \A c \in RunRecords :
       /\ c.needsScheduling = FlagExpected(c.stageType, c.daysInStage)
       /\ c.stageType = StageOffer => ~c.needsScheduling
  /\ \A k \in 1..Len(runs.api), j \in 1..Len(runs.browser) :
       LET a == runs.api[k].candidates[1]
           b == runs.browser[j].candidates[1]
       IN (a.stageType = b.stageType /\ a.daysInStage = b.daysInStage)
            => a.needsScheduling = b.needsScheduling

\* both normalisers ran twice on a capitalised interview stage: 6 days are
\* not flagged, 7 days are, by either client
C28_Witness ==
  /\ pc = "n_done"
  /\ allApplications[1].stageType = Str(<<"P", "h", "o", "n", "e", " ", "I", "n", "t", "e", "r", "v", "i", "e", "w">>)
  /\ \A r \in {runs.api, runs.browser} :
       /\ r[1].candidates[1].daysInStage = 6 /\ ~r[1].candidates[1].needsScheduling
       /\ r[2].candidates[1].daysInStage = 7 /\ r[2].candidates[1].needsScheduling


\* ---------------------------------------------------------------- C29
\* a result with the named fields of its records blanked
Blank(result, fields) ==
  [result EXCEPT !.candidates =
     [k \in 1..Len(@) |->
        [f \in DOMAIN @[k] |-> IF f \in fields THEN "-" ELSE @[k][f]]]]
TwoRuns == Len(runs.api) = 2 /\ Len(runs.browser) = 2
SameExcept(fields) ==
  \A r \in {runs.api, runs.browser} : Blank(r[1], fields) = Blank(r[2], fields)

DetailInFlight == \E k \in 1..Len(batch) : batch[k].st = "sent"

\* C30: when an interrupt arrives during a run, the run stops starting
\* tenant switches and enrichment batches, the detail requests in flight at
\* that moment are completed, and the records aggregated before the
\* interrupt are exported, not discarded.
C30_InterruptKeepsAggregatedRecords ==
  pc = "killed" => /\ ~DetailInFlight
                   /\ allCandidates # <<>> =>
                        (exported # <<>> /\ exported[1].candidates # <<>>)


\* ---------------------------------------------------------------- C31
\* the token fetch that follows a successful switch request has failed for
\* good, and switchOrgContext has not yet acted on it
PostSwitchRefreshFailed ==
  /\ pc = "switch" /\ step = "post_tok" /\ req.kind = "token"
  /\ req.answer \in TokenFailures /\ TokenGivesUp(req.answer)

\* C31: when the switch request succeeded and the token refresh after it
\* fails, switchOrgContext throws (its caller goes on as after a failed
\* switch, not to the job listing or the batch loop), the session's cached
\* token is cleared, and the verification query is not issued.
C31_FailedRefreshClearsToken ==
  [][PostSwitchRefreshFailed =>
       /\ csrfToken' = NoToken
       /\ pc' \notin {"verify", "jobs", "batch_head"}
       /\ verified' = verified
       /\ req' = NoReq
       /\ IF mode = "enrich"
          THEN pc' = "enrich_head" /\ currentOrgContext' = currentOrgContext
          ELSE pc' = "attempt_head" /\ returned'[CurOrgId] = <<EmptyResult>>]_vars

\* C31 witness: the switch request of the current tenant was answered OK,
\* the refresh after it failed, and the session holds no token.
C31_Witness ==
  /\ client = "api" /\ pc = "attempt_head"
  /\ lastSwitch = [target |-> CurOrgId, status |-> "ok"]
  /\ CurOrgId \in switchFailed
  /\ returned[CurOrgId] = <<EmptyResult>>
  /\ csrfToken = NoToken


\* ---------------------------------------------------------------- C32
\* C32: when the listing of active applications fails (the page loop ends
\* with hasMore still true), the result returned for the tenant holds no
\* candidate record, even when earlier pages had been fetched; for either
\* client.
C32_FailedListingGivesNoCandidates ==
  [][/\ (pc = "name" /\ hasMore /\ pc' = "attempt_head" /\ success')
          => returned'[CurOrgId][1].candidates = <<>>
     /\ (pc = "b_apps" /\ hasMore' /\ pc' = "b_done" /\ step' = "returned")
          => returned'[CurOrgId][1].candidates = <<>>]_vars


\* ---------------------------------------------------------------- C33
\* the three aggregates of extractCommand
Aggregate == <<allCompanies, allJobs, allCandidates>>
InTenantLoop ==
  /\ client \in {"api", "start"} /\ mode = "extract"
  /\ pc \in {"loop_head", "attempt_head", "switch"} \cup GqlSites

\* C33: during the tenant loop the aggregate changes only in the step in
\* which an attempt of the current tenant succeeds, and that step appends
\* exactly the result returned; this happens at most once for a tenant (a
\* tenant is entered with success false, and left for the next one, never
\* entered again; once success is set it stays set and the aggregate stays
\* as it is until the tenant is left); an attempt that fails adds no
\* company, job or candidate.
C33_TenantAggregatedAtMostOnce ==
  [][InTenantLoop =>
       /\ i' >= i
       /\ (pc = "loop_head" /\ pc' \notin {"loop_head", "summary"})
            => (~success' /\ i' = i)
       /\ (pc # "loop_head" /\ pc' = "loop_head") => i' = i + 1
       /\ (pc # "loop_head" /\ success) => (success' /\ Aggregate' = Aggregate)
       /\ Aggregate' # Aggregate => (~success /\ success' /\ i' = i)
       /\ (~success /\ success' /\ i' = i) =>
            /\ returned'[CurOrgId] # <<>>
            /\ allCompanies' = allCompanies \o returned'[CurOrgId][1].companies
            /\ allJobs' = allJobs \o returned'[CurOrgId][1].jobs
            /\ allCandidates' = allCandidates \o returned'[CurOrgId][1].candidates
       /\ (attempt' = attempt + 1 /\ ~success') => Aggregate' = Aggregate]_vars

\* C33 witness: the first tenant's first attempt failed and its second
\* succeeded; its records are in the aggregate once.
C33_Witness ==
  /\ client = "api" /\ pc = "attempt_head" /\ i = 1 /\ success /\ attempt = 3
  /\ returned[1] # <<>> /\ returned[1][1].candidates # <<>>
  /\ allCandidates = returned[1][1].candidates


\* ---------------------------------------------------------------- C34
\* the entries of the failed-tenant list for tenant t
FailedEntries(t) == {k \in 1..Len(failedOrgs) : failedOrgs[k].org = t}

\* C34: a tenant of the list that has no user id is skipped: once the loop
\* has passed it, the failed-tenant list holds exactly one entry for it (and
\* none before), nothing was returned for it, no switch, token fetch or
\* query was ever issued for it, and the loop stands on it only at its head;
\* enrichment starts no switch and no detail fetch for such a tenant.
C34_TenantWithoutUserIdIsSkipped ==
  /\ client \in {"api", "start"} =>
       \A k \in 1..Len(orgsToProcess) :
         orgsToProcess[k].userId = NoUser =>
           LET t == orgsToProcess[k].id IN
           /\ Cardinality(FailedEntries(t)) = (IF k < i THEN 1 ELSE 0)
           /\ \A e \in FailedEntries(t) : failedOrgs[e].reason = "no userId"
           /\ (k = i /\ mode = "extract") => pc = "loop_head"
           /\ returned[t] = <<>>
           /\ req # NoReq => req.org # t
           /\ lastSwitch.target # t
           /\ t \notin (switchFailed \cup baseFailed)
  /\ client \in {"api", "start", "enrich"} =>
       /\ \A t \in OrgIds : UserIdOf(t) = NoUser => switchCalls[t] = 0
       /\ \A k \in 1..Len(batch) : UserIdOf(batch[k].cand.orgId) # NoUser
       /\ (mode = "enrich" /\ pc \in {"switch", "batch_head", "batch"})
            => UserIdOf(groups[g].orgId) # NoUser

\* C34 witness: the first tenant has no user id and was skipped, and the
\* second tenant was processed and returned records.
C34_Witness ==
  /\ client = "api" /\ orgsToProcess[1].userId = NoUser
  /\ Cardinality(FailedEntries(1)) = 1
  /\ i > NumOrgs /\ returned[2] # <<>> /\ returned[2][1].candidates # <<>>


\* ---------------------------------------------------------------- C35
\* the token fetch made by graphqlQuery has failed for good
QueryTokenFetchFailed ==
  /\ pc \in GqlSites /\ step = "tok" /\ req.kind = "token"
  /\ req.answer \in TokenFailures /\ TokenGivesUp(req.answer)

\* a step of graphqlQuery as the claim requires it
QueryStepKeepsToken ==
  /\ QueryTokenFetchFailed =>
       /\ csrfToken' = csrfToken
       /\ req' = NoReq
       /\ ~(pc' = pc /\ step' = "qry")
  /\ (req' # req /\ req' # NoReq /\ req'.answer = "-") =>
       step = (IF req'.kind = "token" THEN "tok" ELSE "qry")
  /\ csrfToken' # csrfToken =>
       /\ step = "tok" /\ req.kind = "token" /\ req.answer = "ok"
       /\ csrfToken' = Fresh /\ step' = "qry"

FirstIdentityOf(t) ==
  CHOOSE j \in 1..Len(identities) :
    /\ identities[j].org = t
    /\ \A h \in 1..(j - 1) : identities[h].org # t

\* C36: discovery yields at most one descriptor for a tenant identifier,
\* one for every tenant that has an identity; a descriptor carries the user
\* id and the name of the tenant's first identity, and the descriptors stand
\* in the order in which the tenants first appear in the remote's answer.
C36_OneDescriptorPerTenant ==
  (client = "start" /\ orgInfos # <<>>) =>
    /\ \A p, q \in 1..Len(orgInfos) : orgInfos[p].id = orgInfos[q].id => p = q
    /\ {orgInfos[p].id : p \in 1..Len(orgInfos)}
         = {identities[j].org : j \in 1..Len(identities)}
    /\ \A p \in 1..Len(orgInfos) :
         LET first == identities[FirstIdentityOf(orgInfos[p].id)]
         IN orgInfos[p].userId = first.user /\ orgInfos[p].name = first.name
    /\ \A p, q \in 1..Len(orgInfos) :
         p < q => FirstIdentityOf(orgInfos[p].id) < FirstIdentityOf(orgInfos[q].id)

\* C36 witness: of three identities, the first and the last belong to the
\* same tenant; discovery gave two descriptors, that tenant's first, with
\* the user id of its first identity.
C36_Witness ==
  /\ client = "start" /\ identities = SharedTenantIdentities
  /\ Len(orgInfos) = 2
  /\ orgInfos[1].id = NumOrgs /\ orgInfos[1].userId = NumOrgs
  /\ orgInfos[2].id = 1


\* ---------------------------------------------------------------- C37
\* C37: a call of enrichCandidatesWithDetails returns, for every record
\* list and for every number of concurrent fetches the command line can
\* pass (zero and negative numbers included).
C37_EnrichmentTerminates ==
  (client = "enrich") ~> (pc = "e_done")


\* ---------------------------------------------------------------- C38
\* a result has one candidate for each application, in the same order, and
\* every candidate refers to a job and a company of the result
ResultIsClosed(result, applications) ==
  /\ Len(result.candidates) = Len(applications)
  /\ \A k \in 1..Len(result.candidates) :
       /\ result.candidates[k].id = applications[k].id
       /\ \E j \in 1..Len(result.jobs) : result.jobs[j].id = result.candidates[k].jobId
       /\ InSeq(result.candidates[k].companyId, result.companies)

\* the step in which normalizePipelineData gives a tenant's result
NormalizationReturns ==
  /\ client \in {"api", "start"} /\ mode = "extract"
  /\ pc = "name" /\ pc' = "attempt_head" /\ success'

\* C38: every tenant result of the API client's normalization has as many
\* candidates as applications were fetched, and each candidate's jobId and
\* companyId name a job and a company of that same result.
C38_ResultIsClosedOverItsApplications ==
  [][/\ NormalizationReturns =>
          ResultIsClosed(returned'[CurOrgId][1], allApplications)
     /\ (pc = "n_api") =>
          ResultIsClosed(runs'.api[Len(runs'.api)], allApplications)]_vars

JobsFromPipelinesIds == CHOOSE jobs \in JobsResponses : TRUE

\* a tenant's result with two fetched applications, the job of one of them
\* not being in the jobsPipelines answer
C38_Witness ==
  \E o \in DOMAIN returned :
    /\ returned[o] # <<>>
    /\ Len(returned[o][1].candidates) = MaxPages
    /\ \E k \in 1..MaxPages : ~InSeq(returned[o][1].candidates[k].jobId, JobsFromPipelinesIds)


\* ---------------------------------------------------------------- C39
ScriptExited == script.pc = "exited"
\* the script reports success: it reaches "Extraction complete" with the
\* "Success!" notification or the "no data found" warning
ReportsSuccess == script.report \in {"success", "no data"}
SomeRunExitedZero ==
  \E k \in 1..Len(script.extractions) : script.extractions[k].exit = 0

\* C39: the wrapper script runs the extraction at most MAX_RETRIES times,
\* asks for a session refresh at most once after the initial session check,
\* and, once it has ended, has reported success exactly when an extraction
\* run exited with status 0.
C39_WrapperReportsExitStatus ==
  /\ Len(script.extractions) <= MAX_RETRIES
  /\ Len(script.refreshes) <= 1
  /\ ScriptExited => (ReportsSuccess <=> SomeRunExitedZero)

\* the parts of C39 about the numbers of runs and of refresh dialogs
C39_RunsAndRefreshesBounded ==
  /\ Len(script.extractions) <= MAX_RETRIES
  /\ Len(script.refreshes) <= 1
  /\ ReportsSuccess => SomeRunExitedZero

====
